---- MODULE Spec2Model ----
(***************************************************************************)
(* Model of the FK tooling of the schema repository:                       *)
(*   apply_fk_patch.py      (patcher v1: set_table_name, set_field_ref_table)*)
(*   apply_fk_patch_v2.py   (patcher v2: patch_field_in_node, patch_file)  *)
(*   validate_fk.py         (FK consistency checker)                       *)
(*   scripts/generate_sql_from_yaml.py (SQL emitter)                       *)
(*                                                                         *)
(* A parsed YAML value is a node [tag, s, n, items]:                       *)
(*   tag = "str"  : a string scalar, s its characters                      *)
(*   tag = "int"  : an integer scalar n                                    *)
(*   tag = "bool" : a boolean scalar, n = 1 for true                       *)
(*   tag = "null" : None                                                   *)
(*   tag = "map"  : a dict, items its (key, value) pairs in insertion order*)
(*   tag = "seq"  : a list, items its elements (key "")                    *)
(* A file is [exists, ok, docs]: docs is the YAML stream (a sequence of    *)
(* documents), ok = FALSE means the text does not parse.                   *)
(***************************************************************************)
EXTENDS Integers, Sequences, FiniteSets, TLC

VARIABLES
    disk,        \* file name -> file : the YAML corpus on disk
    bak,         \* file name -> file : the <file>.bak copies
    orig,        \* file name -> file : the corpus as it was at start (history)
    lastOp,      \* the patch operation performed last
    lastRet,     \* its return value (-1: it raised)
    lastWrote,   \* whether it wrote the file back
    repeated,    \* the last operation repeated the one before it
    nops,        \* number of patch operations performed
    writes,      \* file name -> number of times the file was written back
    vk_pc, vk_i, vk_tables, vk_docs, vk_parse_errors, vk_all_fk, vk_missing,
    vk_ret, vk_dir,                      \* validate_fk.main
    fk_field, fk_out, fk_done,           \* find_fk_targets on one field
    em_corpus,   \* the files under --struktur-dir, in sorted path order
    em_cfg,      \* the command line: schema, owner, with_drop, strict, ...
    em_pc, em_i, em_enums, em_tables, em_views, em_errors, em_log,
    em_output,   \* the list `output`
    em_written,  \* the file at --out
    em_status,   \* the exit status (-1 while running)
    em_files,    \* the list `files`
    em_second,   \* the run is the second one over the corpus
    em_prev,     \* what the first run produced
    m2_dir, m2_pc, m2_i, m2_j, m2_not_found, m2_found_any, m2_files_changed,
    m2_fields_patched, m2_ret,           \* apply_fk_patch_v2.main
    m2_second,   \* main runs for the second time on the corpus
    m2_prev,     \* the files and backups the first run left
    pn_node, pn_field, pn_ref, pn_out, pn_done,   \* patch_field_in_node on one node
    ty_col, ty_len, ty_out, ty_done,     \* normalize_pg_type on one column
    pr_in, pr_out, pr_done               \* parse_ref_target on one string

patchVars == <<disk, bak, orig, lastOp, lastRet, lastWrote, repeated, nops, writes>>
vkVars == <<vk_pc, vk_i, vk_tables, vk_docs, vk_parse_errors, vk_all_fk,
            vk_missing, vk_ret, vk_dir>>
fkVars == <<fk_field, fk_out, fk_done>>
emVars == <<em_corpus, em_cfg, em_pc, em_i, em_enums, em_tables, em_views, em_errors,
            em_log, em_output, em_written, em_status, em_files, em_second, em_prev>>
runVars == <<m2_dir, m2_pc, m2_i, m2_j, m2_not_found, m2_found_any, m2_files_changed,
             m2_fields_patched, m2_ret, m2_second, m2_prev>>
nodeVars == <<pn_node, pn_field, pn_ref, pn_out, pn_done>>
typeVars == <<ty_col, ty_len, ty_out, ty_done>>
refVars == <<pr_in, pr_out, pr_done>>
restVars == <<runVars, nodeVars, typeVars, refVars>>
vars == <<patchVars, vkVars, fkVars, emVars, restVars>>

-----------------------------------------------------------------------------
(* Bounds *)

\* patch operations in one behaviour
MaxOps == 2
\* patches applied between runs of the checker
MaxRepatch == 1
\* the longest reference string given to parse_ref_target
MaxRefLen == 5

-----------------------------------------------------------------------------
(* Parsed YAML values *)

Str(chars) == [tag |-> "str", s |-> chars, n |-> 0, items |-> <<>>]
IntV(v) == [tag |-> "int", s |-> <<>>, n |-> v, items |-> <<>>]
BoolV(b) == [tag |-> "bool", s |-> <<>>, n |-> IF b THEN 1 ELSE 0, items |-> <<>>]
Null == [tag |-> "null", s |-> <<>>, n |-> 0, items |-> <<>>]
Map(pairs) == [tag |-> "map", s |-> <<>>, n |-> 0, items |-> pairs]
List(elems) == [tag |-> "seq", s |-> <<>>, n |-> 0,
                items |-> [i \in 1..Len(elems) |-> [k |-> "", v |-> elems[i]]]]
KV(key, val) == [k |-> key, v |-> val]
EmptyMap == Map(<<>>)

isdict(n) == n.tag = "map"
islist(n) == n.tag = "seq"
isstr(n) == n.tag = "str"
\* isinstance(x, int): bool is a subclass of int
isint(n) == n.tag \in {"int", "bool"}

\* `key in d`
Has(d, key) == \E i \in 1..Len(d.items) : d.items[i].k = key

\* d.get(key): the value, None when the key is absent
Get(d, key) ==
    IF Has(d, key)
    THEN d.items[CHOOSE i \in 1..Len(d.items) : d.items[i].k = key].v
    ELSE Null

\* d[key] = val: in place when the key exists, appended otherwise
SetKey(d, key, val) ==
    IF Has(d, key)
    THEN [d EXCEPT !.items = [i \in 1..Len(d.items) |->
                IF d.items[i].k = key THEN KV(key, val) ELSE d.items[i]]]
    ELSE [d EXCEPT !.items = Append(d.items, KV(key, val))]

RECURSIVE SumSeq(_)
SumSeq(q) == IF q = <<>> THEN 0 ELSE Head(q) + SumSeq(Tail(q))

RECURSIVE Concat(_)
Concat(q) == IF q = <<>> THEN <<>> ELSE Head(q) \o Concat(Tail(q))

Whitespace == {" ", "\t", "\n", "\r"}

\* str.strip()
RECURSIVE lstrip(_)
lstrip(cs) == IF cs # <<>> /\ Head(cs) \in Whitespace THEN lstrip(Tail(cs)) ELSE cs
RECURSIVE rstrip(_)
rstrip(cs) ==
    IF cs # <<>> /\ cs[Len(cs)] \in Whitespace
    THEN rstrip(SubSeq(cs, 1, Len(cs) - 1)) ELSE cs
strip(cs) == rstrip(lstrip(cs))

DigitChars == <<"0", "1", "2", "3", "4", "5", "6", "7", "8", "9">>

\* str(i) of an integer
RECURSIVE decimal(_)
decimal(i) ==
    IF i < 0 THEN <<"-">> \o decimal(0 - i)
    ELSE IF i < 10 THEN <<DigitChars[i + 1]>>
    ELSE decimal(i \div 10) \o <<DigitChars[(i % 10) + 1]>>

\* str(x) of a scalar; a container's repr never equals an identifier
pystr(n) ==
    CASE n.tag = "str" -> n.s
      [] n.tag = "int" -> decimal(n.n)
      [] n.tag = "bool" -> IF n.n = 1 THEN <<"T", "r", "u", "e">> ELSE <<"F", "a", "l", "s", "e">>
      [] n.tag = "null" -> <<"N", "o", "n", "e">>
      [] OTHER -> <<"{", "}">>

\* yaml.safe_dump / safe_dump_all: the text of a value, as a token sequence
RECURSIVE safe_dump(_)
safe_dump(n) ==
    CASE n.tag = "str" -> <<"'">> \o n.s \o <<"'">>
      [] n.tag = "null" -> <<"null">>
      [] n.tag \in {"int", "bool"} -> pystr(n)
      [] n.tag = "map" ->
            <<"{">> \o Concat([i \in 1..Len(n.items) |->
                <<n.items[i].k, ":">> \o safe_dump(n.items[i].v) \o <<",">>]) \o <<"}">>
      [] OTHER ->
            <<"[">> \o Concat([i \in 1..Len(n.items) |->
                safe_dump(n.items[i].v) \o <<",">>]) \o <<"]">>

safe_dump_all(docs) ==
    Concat([i \in 1..Len(docs) |-> <<"---">> \o safe_dump(docs[i])])

-----------------------------------------------------------------------------
(* Files *)

File(docs) == [exists |-> TRUE, ok |-> TRUE, docs |-> docs]
Unparsable == [exists |-> TRUE, ok |-> FALSE, docs |-> <<>>]
NoFile == [exists |-> FALSE, ok |-> FALSE, docs |-> <<>>]

\* yaml.safe_load raises on unparsable text and on a stream of several documents
safe_load_raises(f) == ~f.ok \/ Len(f.docs) > 1
\* yaml.safe_load: the single document, None for an empty stream
safe_load(f) == IF f.docs = <<>> THEN Null ELSE f.docs[1]

ensure_backup_overwrite(b, f) == f

\* ensure_backup: copy p to p.bak unless p.bak exists
ensure_backup(b, f) == IF ~b.exists THEN f ELSE b

-----------------------------------------------------------------------------
(* apply_fk_patch_v2.py *)

load_yaml_all(f) == [i \in 1..Len(f.docs) |->
                        IF f.docs[i] # Null THEN f.docs[i] ELSE EmptyMap]

is_field_dict(d) == isdict(d) /\ Has(d, "name") /\ isstr(Get(d, "name"))

\* patch_field_in_node without the comparison with the current value
RECURSIVE patch_field_in_node_nocompare(_, _, _)
patch_field_in_node_nocompare(node, field_name, ref_table) ==
    IF isdict(node) THEN
        LET set == is_field_dict(node) /\ Get(node, "name") = Str(field_name)
            n1 == IF set THEN SetKey(node, "ref_table", Str(ref_table)) ELSE node
            kids == [i \in 1..Len(n1.items) |->
                        patch_field_in_node_nocompare(n1.items[i].v, field_name, ref_table)]
        IN  [node |-> [n1 EXCEPT !.items = [i \in 1..Len(n1.items) |->
                            KV(n1.items[i].k, kids[i].node)]],
             changed |-> (IF set THEN 1 ELSE 0)
                          + SumSeq([i \in 1..Len(kids) |-> kids[i].changed])]
    ELSE IF islist(node) THEN
        LET kids == [i \in 1..Len(node.items) |->
                        patch_field_in_node_nocompare(node.items[i].v, field_name, ref_table)]
        IN  [node |-> [node EXCEPT !.items = [i \in 1..Len(node.items) |->
                            KV("", kids[i].node)]],
             changed |-> SumSeq([i \in 1..Len(kids) |-> kids[i].changed])]
    ELSE [node |-> node, changed |-> 0]

patch_field_in_node_shallow(node, field_name, ref_table) ==
    IF isdict(node) /\ is_field_dict(node) /\ Get(node, "name") = Str(field_name)
       /\ Get(node, "ref_table") # Str(ref_table)
    THEN [node |-> SetKey(node, "ref_table", Str(ref_table)), changed |-> 1]
    ELSE [node |-> node, changed |-> 0]

\* returns the patched node and the number of changes
RECURSIVE patch_field_in_node(_, _, _)
patch_field_in_node(node, field_name, ref_table) ==
    IF isdict(node) THEN
        LET hit == is_field_dict(node) /\ Get(node, "name") = Str(field_name)
            set == hit /\ Get(node, "ref_table") # Str(ref_table)
            n1 == IF set THEN SetKey(node, "ref_table", Str(ref_table)) ELSE node
            kids == [i \in 1..Len(n1.items) |->
                        patch_field_in_node(n1.items[i].v, field_name, ref_table)]
        IN  [node |-> [n1 EXCEPT !.items = [i \in 1..Len(n1.items) |->
                            KV(n1.items[i].k, kids[i].node)]],
             changed |-> (IF set THEN 1 ELSE 0)
                          + SumSeq([i \in 1..Len(kids) |-> kids[i].changed])]
    ELSE IF islist(node) THEN
        LET kids == [i \in 1..Len(node.items) |->
                        patch_field_in_node(node.items[i].v, field_name, ref_table)]
        IN  [node |-> [node EXCEPT !.items = [i \in 1..Len(node.items) |->
                            KV("", kids[i].node)]],
             changed |-> SumSeq([i \in 1..Len(kids) |-> kids[i].changed])]
    ELSE [node |-> node, changed |-> 0]

\* patch_file writing the file back whatever the number of changes
patch_file_always_writes(f, b, field_name, ref_table) ==
    IF ~f.ok THEN [file |-> f, bak |-> b, ret |-> -1, wrote |-> FALSE]
    ELSE
    LET docs == load_yaml_all(f)
        res == [i \in 1..Len(docs) |-> patch_field_in_node(docs[i], field_name, ref_table)]
    IN  [file |-> File([i \in 1..Len(docs) |-> res[i].node]),
         bak |-> ensure_backup(b, f),
         ret |-> SumSeq([i \in 1..Len(docs) |-> res[i].changed]),
         wrote |-> TRUE]

\* patch_file on file f with backup b: the file, the backup, the return value
patch_file(f, b, field_name, ref_table) ==
    IF ~f.ok THEN [file |-> f, bak |-> b, ret |-> -1, wrote |-> FALSE]
    ELSE
    LET docs == load_yaml_all(f)
        before == safe_dump_all(docs)
        res == [i \in 1..Len(docs) |-> patch_field_in_node(docs[i], field_name, ref_table)]
        patched == [i \in 1..Len(docs) |-> res[i].node]
        total_changes == SumSeq([i \in 1..Len(docs) |-> res[i].changed])
        after == safe_dump_all(patched)
        write == total_changes > 0 /\ before # after
    IN  [file |-> IF write THEN File(patched) ELSE f,
         bak |-> IF write THEN ensure_backup(b, f) ELSE b,
         ret |-> total_changes,
         wrote |-> write]

-----------------------------------------------------------------------------
(* apply_fk_patch.py *)

\* [x for x in val if isinstance(x, dict)]
only_dicts(lst) ==
    [lst EXCEPT !.items = SelectSeq(lst.items, LAMBDA it : isdict(it.v))]

\* the fields/columns lists of a mapping, each rebuilt without its non-dict elements
filter_lists(d) ==
    [d EXCEPT !.items = [i \in 1..Len(d.items) |->
        IF d.items[i].k \in {"fields", "columns"} /\ islist(d.items[i].v)
        THEN KV(d.items[i].k, only_dicts(d.items[i].v))
        ELSE d.items[i]]]

list_keys(d) ==
    SelectSeq(<<"fields", "columns">>, LAMBDA key : islist(Get(d, key)))

\* get_fields_containers: the document as it leaves the call, and the places
\* (key paths) of the lists it returns
get_fields_containers(doc) ==
    IF ~isdict(doc) THEN [doc |-> doc, containers |-> <<>>]
    ELSE
    LET d1 == filter_lists(doc)
        schema == Get(d1, "schema")
        d2 == IF isdict(schema) THEN SetKey(d1, "schema", filter_lists(schema)) ELSE d1
        top == list_keys(d1)
        sub == IF isdict(schema) THEN list_keys(schema) ELSE <<>>
    IN  [doc |-> d2,
         containers |-> [i \in 1..Len(top) |-> <<top[i]>>]
                        \o [i \in 1..Len(sub) |-> <<"schema", sub[i]>>]]

\* f.get("name", "")
name_or_empty(f) == IF Has(f, "name") THEN Get(f, "name") ELSE Str(<<>>)

v1_match(f, field_name) ==
    isdict(f) /\ strip(pystr(name_or_empty(f))) = field_name

v1_needs(f, field_name, ref_table) ==
    v1_match(f, field_name) /\ Get(f, "ref_table") # Str(ref_table)

\* the loop body over one container list
v1_patch_list(arr, field_name, ref_table) ==
    [arr EXCEPT !.items = [i \in 1..Len(arr.items) |->
        IF v1_needs(arr.items[i].v, field_name, ref_table)
        THEN KV("", SetKey(arr.items[i].v, "ref_table", Str(ref_table)))
        ELSE arr.items[i]]]

v1_list_changed(arr, field_name, ref_table) ==
    \E i \in 1..Len(arr.items) : v1_needs(arr.items[i].v, field_name, ref_table)

\* the list at a container path
v1_at(doc, path) ==
    IF Len(path) = 1 THEN Get(doc, path[1]) ELSE Get(Get(doc, path[1]), path[2])

v1_put(doc, path, arr) ==
    IF Len(path) = 1 THEN SetKey(doc, path[1], arr)
    ELSE SetKey(doc, path[1], SetKey(Get(doc, path[1]), path[2], arr))

RECURSIVE v1_patch_containers(_, _, _, _)
v1_patch_containers(doc, paths, field_name, ref_table) ==
    IF paths = <<>> THEN doc
    ELSE v1_patch_containers(
            v1_put(doc, Head(paths),
                   v1_patch_list(v1_at(doc, Head(paths)), field_name, ref_table)),
            Tail(paths), field_name, ref_table)

\* set_field_ref_table on file f with backup b
set_field_ref_table(f, b, field_name, ref_table) ==
    IF safe_load_raises(f) THEN [file |-> f, bak |-> b, ret |-> -1, wrote |-> FALSE]
    ELSE
    LET c == get_fields_containers(safe_load(f))
        changed == \E i \in 1..Len(c.containers) :
                      v1_list_changed(v1_at(c.doc, c.containers[i]), field_name, ref_table)
        doc == v1_patch_containers(c.doc, c.containers, field_name, ref_table)
    IN  IF c.containers = <<>>
        THEN [file |-> f, bak |-> b, ret |-> 0, wrote |-> FALSE]
        ELSE [file |-> IF changed THEN File(<<doc>>) ELSE f,
              bak |-> IF changed THEN ensure_backup(b, f) ELSE b,
              ret |-> IF changed THEN 1 ELSE 0,
              wrote |-> changed]

\* set_table_name on file f with backup b
set_table_name(f, b, target_name) ==
    IF safe_load_raises(f) THEN [file |-> f, bak |-> b, ret |-> -1, wrote |-> FALSE]
    ELSE
    LET doc == safe_load(f)
        change == isdict(doc) /\ Get(doc, "name") # Str(target_name)
    IN  [file |-> IF change THEN File(<<SetKey(doc, "name", Str(target_name))>>) ELSE f,
         bak |-> IF change THEN ensure_backup(b, f) ELSE b,
         ret |-> IF change THEN 1 ELSE 0,
         wrote |-> change]

-----------------------------------------------------------------------------
(* validate_fk.py *)

UpperCase == <<"A", "B", "C", "D", "E", "F", "G", "H", "I", "J", "K", "L", "M", "N", "O", "P", "Q", "R", "S", "T", "U", "V", "W", "X", "Y", "Z">>
LowerCase == <<"a", "b", "c", "d", "e", "f", "g", "h", "i", "j", "k", "l", "m", "n", "o", "p", "q", "r", "s", "t", "u", "v", "w", "x", "y", "z">>

\* str.lower()
lower(cs) == [i \in 1..Len(cs) |->
    IF \E j \in 1..Len(UpperCase) : UpperCase[j] = cs[i]
    THEN LowerCase[CHOOSE j \in 1..Len(UpperCase) : UpperCase[j] = cs[i]]
    ELSE cs[i]]

\* str.endswith
endswith(cs, suffix) ==
    Len(cs) >= Len(suffix) /\ SubSeq(cs, Len(cs) - Len(suffix) + 1, Len(cs)) = suffix

\* str.split(sep) for a one-character separator
RECURSIVE split(_, _)
split(cs, sep) ==
    IF \E i \in 1..Len(cs) : cs[i] = sep
    THEN LET i == CHOOSE k \in 1..Len(cs) :
                     cs[k] = sep /\ \A j \in 1..(k - 1) : cs[j] # sep
         IN  <<SubSeq(cs, 1, i - 1)>> \o split(SubSeq(cs, i + 1, Len(cs)), sep)
    ELSE <<cs>>

\* sep.join(parts)
RECURSIVE join(_, _)
join(parts, sep) ==
    IF parts = <<>> THEN <<>>
    ELSE IF Len(parts) = 1 THEN parts[1]
    ELSE parts[1] \o <<sep>> \o join(Tail(parts), sep)

\* a text joined by a separator of several characters
RECURSIVE join_text(_, _)
join_text(parts, sep) ==
    IF parts = <<>> THEN <<>>
    ELSE IF Len(parts) = 1 THEN parts[1]
    ELSE parts[1] \o sep \o join_text(Tail(parts), sep)

\* a value Python treats as false
falsy(n) ==
    CASE n.tag = "null" -> TRUE
      [] n.tag \in {"int", "bool"} -> n.n = 0
      [] n.tag = "str" -> n.s = <<>>
      [] OTHER -> n.items = <<>>

ParseError == Map(<<KV("__parse_error__", Str(<<"e", "x", "c">>))>>)

load_yaml(f) ==
    IF safe_load_raises(f) THEN ParseError
    ELSE IF falsy(safe_load(f)) THEN EmptyMap ELSE safe_load(f)

is_parse_error_never(doc) == FALSE

\* isinstance(doc, dict) and "__parse_error__" in doc
is_parse_error(doc) == isdict(doc) /\ Has(doc, "__parse_error__")

\* isinstance(v, str) and v.strip()
nonblank(v) == isstr(v) /\ strip(v.s) # <<>>

infer_table_name(doc, fallback) ==
    IF isdict(doc) /\ nonblank(Get(doc, "name")) THEN strip(Get(doc, "name").s)
    ELSE IF isdict(doc) /\ nonblank(Get(doc, "table")) THEN strip(Get(doc, "table").s)
    ELSE fallback

\* the dict elements of a list value, as a sequence of nodes
dict_elems(val) ==
    LET ds == SelectSeq(val.items, LAMBDA it : isdict(it.v))
    IN  [i \in 1..Len(ds) |-> ds[i].v]

\* the first non-empty list of dicts among the keys fields, columns of d
first_fields(d) ==
    IF islist(Get(d, "fields")) /\ dict_elems(Get(d, "fields")) # <<>>
    THEN dict_elems(Get(d, "fields"))
    ELSE IF islist(Get(d, "columns")) /\ dict_elems(Get(d, "columns")) # <<>>
    THEN dict_elems(Get(d, "columns"))
    ELSE <<>>

iter_fields(doc) ==
    IF ~isdict(doc) THEN <<>>
    ELSE IF first_fields(doc) # <<>> THEN first_fields(doc)
    ELSE IF isdict(Get(doc, "schema")) THEN first_fields(Get(doc, "schema"))
    ELSE <<>>

\* parse_ref_target keeping the first component only
parse_ref_target_first(ref_str) ==
    LET s == strip(ref_str)
    IN  IF s = <<>> THEN <<>> ELSE split(s, ".")[1]

parse_ref_target(ref_str) ==
    LET s == strip(ref_str)
        parts == split(s, ".")
    IN  IF s = <<>> THEN <<>>
        ELSE IF Len(parts) = 1 THEN parts[1]
        ELSE join(SubSeq(parts, 1, Len(parts) - 1), ".")

ID_SUFFIX == <<"_", "i", "d">>
paren(cs) == <<"(">> \o cs \o <<")">>
\* name or "(label)"
name_or(name, label) == IF name # <<>> THEN name ELSE paren(label)

\* f.get(key, "")
get_or_empty(f, key) == IF Has(f, key) THEN Get(f, key) ELSE Str(<<>>)

FK_TYPES == {<<"f", "k">>, <<"f", "o", "r", "e", "i", "g", "n", "_", "k", "e", "y">>, <<"r", "e", "f", "e", "r", "e", "n", "c", "e">>, <<"m", "a", "n", "y", "2", "o", "n", "e">>}

\* the candidates of the keys of d, in order, each target through parse_ref_target
RECURSIVE fk_by_keys(_, _, _)
fk_by_keys(d, keys, fname) ==
    IF keys = <<>> THEN <<>>
    ELSE (IF nonblank(Get(d, Head(keys)))
          THEN <<<<fname, parse_ref_target(Get(d, Head(keys)).s)>>>>
          ELSE <<>>) \o fk_by_keys(d, Tail(keys), fname)

\* the loop body of find_fk_targets for one field
fk_of_field(f) ==
    LET name == strip(pystr(get_or_empty(f, "name")))
        ftype == lower(pystr(get_or_empty(f, "type")))
        pola1 == IF endswith(name, ID_SUFFIX) /\ Len(name) > 3
                 THEN <<<<name, SubSeq(name, 1, Len(name) - 3)>>>> ELSE <<>>
        pola2 == IF nonblank(Get(f, "ref_table"))
                 THEN <<<<name_or(name, <<"u", "n", "n", "a", "m", "e", "d">>), strip(Get(f, "ref_table").s)>>>>
                 ELSE <<>>
        pola3 == (IF nonblank(Get(f, "references"))
                  THEN <<<<name_or(name, <<"r", "e", "f", "e", "r", "e", "n", "c", "e", "s">>),
                           parse_ref_target(Get(f, "references").s)>>>> ELSE <<>>)
                 \o (IF nonblank(Get(f, "foreign_key"))
                  THEN <<<<name_or(name, <<"f", "o", "r", "e", "i", "g", "n", "_", "k", "e", "y">>),
                           parse_ref_target(Get(f, "foreign_key").s)>>>> ELSE <<>>)
        pola4 == IF ftype \in FK_TYPES
                 THEN fk_by_keys(f, <<"ref", "reference", "target", "comodel", "model">>,
                                 name_or(name, ftype))
                 ELSE <<>>
        pola5 == IF nonblank(Get(f, "relation"))
                 THEN <<<<name_or(name, <<"r", "e", "l", "a", "t", "i", "o", "n">>), strip(Get(f, "relation").s)>>>>
                 ELSE <<>>
        pola6 == IF isdict(Get(f, "many2one"))
                 THEN fk_by_keys(Get(f, "many2one"), <<"comodel", "model", "table">>,
                                 name_or(name, <<"m", "a", "n", "y", "2", "o", "n", "e">>))
                 ELSE <<>>
    IN  pola1 \o pola2 \o pola3 \o pola4 \o pola5 \o pola6

\* find_fk_targets with the naming convention as a fallback, consulted only for
\* a field that declares no reference
find_fk_targets_fallback(fields) ==
    LET one(f) == IF Len(fk_of_field(f)) > 1
                     /\ endswith(strip(pystr(get_or_empty(f, "name"))), ID_SUFFIX)
                  THEN Tail(fk_of_field(f))
                  ELSE fk_of_field(f)
        fks == Concat([i \in 1..Len(fields) |-> one(fields[i])])
        kept == SelectSeq(fks, LAMBDA c : strip(c[2]) # <<>>)
    IN  [i \in 1..Len(kept) |-> <<kept[i][1], strip(kept[i][2])>>]

\* find_fk_targets with a declared ref_table overriding the naming convention
find_fk_targets_override(fields) ==
    LET one(f) == IF nonblank(Get(f, "ref_table"))
                  THEN SelectSeq(fk_of_field(f), LAMBDA c :
                           c[2] = strip(Get(f, "ref_table").s))
                  ELSE fk_of_field(f)
        fks == Concat([i \in 1..Len(fields) |-> one(fields[i])])
        kept == SelectSeq(fks, LAMBDA c : strip(c[2]) # <<>>)
    IN  [i \in 1..Len(kept) |-> <<kept[i][1], strip(kept[i][2])>>]

find_fk_targets(fields) ==
    LET fks == Concat([i \in 1..Len(fields) |-> fk_of_field(fields[i])])
        kept == SelectSeq(fks, LAMBDA c : strip(c[2]) # <<>>)
    IN  [i \in 1..Len(kept) |-> <<kept[i][1], strip(kept[i][2])>>]

is_missing_inverted(target_table, tables) == target_table \in tables

\* target_table not in tables
is_missing(target_table, tables) == target_table \notin tables

\* the exit code of main after a scan
exit_code(missing, parse_errors) ==
    IF missing = <<>> /\ parse_errors = <<>> THEN 0
    ELSE IF missing # <<>> THEN 1 ELSE 0

-----------------------------------------------------------------------------
(* scripts/generate_sql_from_yaml.py *)

\* str.upper()
upper(cs) == [i \in 1..Len(cs) |->
    IF \E j \in 1..Len(LowerCase) : LowerCase[j] = cs[i]
    THEN UpperCase[CHOOSE j \in 1..Len(LowerCase) : LowerCase[j] = cs[i]]
    ELSE cs[i]]

\* str.startswith
startswith(cs, prefix) ==
    Len(cs) >= Len(prefix) /\ SubSeq(cs, 1, Len(prefix)) = prefix

\* the text after the first occurrence of sep (str.split(sep, 1)[1])
after_first(cs, sep) ==
    LET i == CHOOSE k \in 1..Len(cs) :
                 /\ k + Len(sep) - 1 <= Len(cs)
                 /\ SubSeq(cs, k, k + Len(sep) - 1) = sep
                 /\ \A j \in 1..(k - 1) : SubSeq(cs, j, j + Len(sep) - 1) # sep
    IN  SubSeq(cs, i + Len(sep), Len(cs))

\* x or y
py_or(x, y) == IF falsy(x) THEN y ELSE x

to_bool(val, default) ==
    IF val.tag = "bool" THEN val.n = 1
    ELSE IF val.tag = "null" THEN default
    ELSE lower(strip(pystr(val))) \in {<<"1">>, <<"t", "r", "u", "e">>, <<"y", "e", "s">>, <<"y">>, <<"o", "n">>}

LowerSet == {LowerCase[i] : i \in 1..Len(LowerCase)}
DigitSet == {DigitChars[i] : i \in 1..Len(DigitChars)}

\* re.fullmatch(r"[a-z_][a-z0-9_]*", name)
plain_ident(name) ==
    /\ name # <<>>
    /\ name[1] \in LowerSet \cup {"_"}
    /\ \A i \in 2..Len(name) : name[i] \in LowerSet \cup DigitSet \cup {"_"}

\* s.replace(c, c + c)
doubled(cs, c) == Concat([i \in 1..Len(cs) |-> IF cs[i] = c THEN <<c, c>> ELSE <<cs[i]>>])

qident(name) ==
    IF plain_ident(name) THEN name ELSE <<"\"">> \o doubled(name, "\"") \o <<"\"">>

qliteral(val) ==
    IF val.tag = "null" THEN <<"N", "U", "L", "L">>
    ELSE IF isint(val) THEN pystr(val)
    ELSE <<"'">> \o doubled(pystr(val), "'") \o <<"'">>

\* col.get("type") or "": the type token is read with str methods, so a true
\* value that is no string raises
type_raises(col) == ~falsy(Get(col, "type")) /\ ~isstr(Get(col, "type"))

\* isinstance(v, int) and v > 0
pos_int(v) == isint(v) /\ v.n > 0

normalize_pg_type(col, default_varchar_len) ==
    LET t == lower(strip(py_or(Get(col, "type"), Str(<<>>)).s))
        dflt == <<"v", "a", "r", "c", "h", "a", "r", "(">> \o decimal(default_varchar_len) \o <<")">>
    IN  IF startswith(t, <<"e", "n", "u", "m", ":">>) THEN <<"e", "n", "u", "m", ":", ":">> \o strip(after_first(t, <<":">>))
        ELSE IF t \in {<<"v", "a", "r", "c", "h", "a", "r">>, <<"c", "h", "a", "r", "a", "c", "t", "e", "r", " ", "v", "a", "r", "y", "i", "n", "g">>}
             THEN IF pos_int(Get(col, "length"))
                  THEN <<"v", "a", "r", "c", "h", "a", "r", "(">> \o pystr(Get(col, "length")) \o <<")">>
                  ELSE dflt
        ELSE IF t = <<"t", "e", "x", "t">> THEN <<"t", "e", "x", "t">>
        ELSE IF t = <<"u", "u", "i", "d">> THEN <<"u", "u", "i", "d">>
        ELSE IF t \in {<<"i", "n", "t">>, <<"i", "n", "t", "e", "g", "e", "r">>} THEN <<"i", "n", "t", "e", "g", "e", "r">>
        ELSE IF t = <<"b", "i", "g", "i", "n", "t">> THEN <<"b", "i", "g", "i", "n", "t">>
        ELSE IF t \in {<<"n", "u", "m", "e", "r", "i", "c">>, <<"d", "e", "c", "i", "m", "a", "l">>}
             THEN IF isint(Get(col, "precision")) /\ isint(Get(col, "scale"))
                  THEN <<"n", "u", "m", "e", "r", "i", "c", "(">> \o pystr(Get(col, "precision")) \o <<",">>
                       \o pystr(Get(col, "scale")) \o <<")">>
                  ELSE <<"n", "u", "m", "e", "r", "i", "c">>
        ELSE IF t \in {<<"b", "o", "o", "l", "e", "a", "n">>, <<"b", "o", "o", "l">>} THEN <<"b", "o", "o", "l", "e", "a", "n">>
        ELSE IF t = <<"d", "a", "t", "e">> THEN <<"d", "a", "t", "e">>
        ELSE IF t = <<"t", "i", "m", "e", "s", "t", "a", "m", "p">> THEN <<"t", "i", "m", "e", "s", "t", "a", "m", "p">>
        ELSE IF t \in {<<"t", "i", "m", "e", "s", "t", "a", "m", "p", "t", "z">>, <<"t", "i", "m", "e", "s", "t", "a", "m", "p", " ", "w", "i", "t", "h", " ", "t", "i", "m", "e", " ", "z", "o", "n", "e">>} THEN <<"t", "i", "m", "e", "s", "t", "a", "m", "p", "t", "z">>
        ELSE IF t = <<"j", "s", "o", "n", "b">> THEN <<"j", "s", "o", "n", "b">>
        ELSE IF t = <<"j", "s", "o", "n">> THEN <<"j", "s", "o", "n">>
        ELSE IF t # <<>> THEN t ELSE dflt

\* parse_yaml_file raises where yaml.safe_load does
parse_yaml_file(f) == IF falsy(safe_load(f)) THEN EmptyMap ELSE safe_load(f)

\* d.get(key, default)
get_default(d, key, default) == IF Has(d, key) THEN Get(d, key) ELSE default

\* column_line raises: no mapping, no name, a name or type that is no string
column_raises(col) ==
    \/ ~isdict(col)
    \/ falsy(Get(col, "name"))
    \/ ~isstr(Get(col, "name"))
    \/ type_raises(col)

\* the column DDL of column_line
column_ddl(col, default_varchar_len) ==
    LET t == normalize_pg_type(col, default_varchar_len)
        default == Get(col, "default")
        sdef == pystr(default)
    IN  qident(Get(col, "name").s) \o <<" ">>
        \o (IF startswith(t, <<"e", "n", "u", "m", ":", ":">>) THEN qident(after_first(t, <<":", ":">>)) ELSE t)
        \o (IF falsy(get_default(col, "nullable", BoolV(TRUE))) THEN <<" ", "N", "O", "T", " ", "N", "U", "L", "L">> ELSE <<>>)
        \o (IF default = Null THEN <<>>
            ELSE IF endswith(sdef, <<":", "r", "a", "w">>)
                 THEN <<" ", "D", "E", "F", "A", "U", "L", "T", " ">> \o SubSeq(sdef, 1, Len(sdef) - 4)
                 ELSE <<" ", "D", "E", "F", "A", "U", "L", "T", " ">> \o qliteral(default))

\* the elements of a list node
elems(lst) == [i \in 1..Len(lst.items) |-> lst.items[i].v]

\* obj.get(key) or []
list_or_empty(obj, key) == IF falsy(Get(obj, key)) THEN <<>> ELSE elems(Get(obj, key))

\* the items a loop over a list of names visits; a string in place of the
\* list is visited character by character
name_elems(v) ==
    IF isstr(v) THEN [i \in 1..Len(v.s) |-> Str(<<v.s[i]>>)] ELSE elems(v)

\* ", ".join(qident(c) for c in cols)
ident_list(cols) == join_text([i \in 1..Len(cols) |-> qident(cols[i].s)], <<",", " ">>)

\* a value whose items can all be quoted as identifiers
names_ok(v) == isstr(v) \/ (islist(v) /\ \A i \in 1..Len(v.items) : isstr(v.items[i].v))

\* obj.get("foreign_keys") or obj.get("references") or []
fk_decls(obj) ==
    IF ~falsy(Get(obj, "foreign_keys")) THEN Get(obj, "foreign_keys")
    ELSE IF ~falsy(Get(obj, "references")) THEN Get(obj, "references")
    ELSE List(<<>>)

fk_raises(fk) ==
    \/ ~isdict(fk)
    \/ falsy(Get(fk, "columns")) \/ falsy(Get(fk, "ref_table"))
    \/ ~names_ok(Get(fk, "columns")) \/ ~isstr(Get(fk, "ref_table"))
    \/ (~falsy(Get(fk, "ref_columns")) /\ ~names_ok(Get(fk, "ref_columns")))
    \/ (~falsy(Get(fk, "ref_schema")) /\ ~isstr(Get(fk, "ref_schema")))
    \/ (~falsy(Get(fk, "on_delete")) /\ ~isstr(Get(fk, "on_delete")))
    \/ (~falsy(Get(fk, "on_update")) /\ ~isstr(Get(fk, "on_update")))

\* the schema-qualified table a foreign key declaration references
fk_ref(fk, sch) ==
    qident(py_or(Get(fk, "ref_schema"), Str(sch)).s) \o <<".">> \o qident(Get(fk, "ref_table").s)

fk_line(fk, sch) ==
    <<"F", "O", "R", "E", "I", "G", "N", " ", "K", "E", "Y", " ", "(">> \o ident_list(name_elems(Get(fk, "columns"))) \o <<")", " ", "R", "E", "F", "E", "R", "E", "N", "C", "E", "S", " ">>
    \o fk_ref(fk, sch)
    \o (IF falsy(Get(fk, "ref_columns")) THEN <<>>
        ELSE <<" ", "(">> \o ident_list(name_elems(Get(fk, "ref_columns"))) \o <<")">>)
    \o (IF falsy(Get(fk, "on_delete")) THEN <<>>
        ELSE <<" ", "O", "N", " ", "D", "E", "L", "E", "T", "E", " ">> \o upper(Get(fk, "on_delete").s))
    \o (IF falsy(Get(fk, "on_update")) THEN <<>>
        ELSE <<" ", "O", "N", " ", "U", "P", "D", "A", "T", "E", " ">> \o upper(Get(fk, "on_update").s))
    \o (IF to_bool(get_default(fk, "deferrable", BoolV(FALSE)), FALSE)
        THEN <<" ", "D", "E", "F", "E", "R", "R", "A", "B", "L", "E">>
             \o (IF to_bool(get_default(fk, "initially_deferred", BoolV(FALSE)), FALSE)
                 THEN <<" ", "I", "N", "I", "T", "I", "A", "L", "L", "Y", " ", "D", "E", "F", "E", "R", "R", "E", "D">> ELSE <<>>)
        ELSE <<>>)

\* the columns marked primary_key
pk_marked(columns) ==
    LET marked == SelectSeq(columns, LAMBDA c :
                      to_bool(get_default(c, "primary_key", BoolV(FALSE)), FALSE))
    IN  [i \in 1..Len(marked) |-> Get(marked[i], "name")]

\* pk_cols: the explicit primary_key list, else the marked columns
pk_cols(obj) ==
    IF ~falsy(Get(obj, "primary_key")) THEN elems(Get(obj, "primary_key"))
    ELSE pk_marked(elems(Get(obj, "columns")))

\* the schema of a table or view
obj_schema(obj, schema) == strip(py_or(Get(obj, "schema"), Str(schema)).s)

\* the ValueError and other exceptions gen_table_sql ends with; uniques, checks
\* and indexes are lists where present, and no column text holds "enum::"
\* outside its type
gen_table_raises(obj) ==
    \/ (~falsy(Get(obj, "schema")) /\ ~isstr(Get(obj, "schema")))
    \/ falsy(Get(obj, "name")) \/ ~isstr(Get(obj, "name"))
    \/ falsy(Get(obj, "columns")) \/ ~islist(Get(obj, "columns"))
    \/ \E i \in 1..Len(Get(obj, "columns").items) :
          column_raises(Get(obj, "columns").items[i].v)
    \/ (~falsy(Get(obj, "primary_key")) /\
          (~islist(Get(obj, "primary_key")) \/ ~names_ok(Get(obj, "primary_key"))))
    \/ \E i \in 1..Len(list_or_empty(obj, "uniques")) :
          LET u == list_or_empty(obj, "uniques")[i]
          IN  ~isstr(u) /\ ~(islist(u) /\ names_ok(u))
    \/ ~islist(fk_decls(obj))
    \/ \E i \in 1..Len(fk_decls(obj).items) : fk_raises(fk_decls(obj).items[i].v)
    \/ \E i \in 1..Len(list_or_empty(obj, "indexes")) :
          LET ix == list_or_empty(obj, "indexes")[i]
          IN  \/ ~isdict(ix)
              \/ (~falsy(Get(ix, "columns")) /\
                    (~names_ok(Get(ix, "columns"))
                     \/ (~falsy(Get(ix, "name")) /\ ~isstr(Get(ix, "name")))))

gen_drop_stmt(object_type, fqname) ==
    <<"D", "R", "O", "P", " ">> \o object_type \o <<" ", "I", "F", " ", "E", "X", "I", "S", "T", "S", " ">> \o fqname \o <<" ", "C", "A", "S", "C", "A", "D", "E", ";">>

\* the body parts of CREATE TABLE: columns, primary key, uniques, checks and
\* foreign keys, in this order
body_parts(obj, sch, default_varchar_len) ==
    LET columns == elems(Get(obj, "columns"))
        pk == pk_cols(obj)
        uniques == list_or_empty(obj, "uniques")
        checks == list_or_empty(obj, "checks")
        fks == elems(fk_decls(obj))
    IN  [i \in 1..Len(columns) |-> column_ddl(columns[i], default_varchar_len)]
        \o (IF pk # <<>> THEN <<<<"P", "R", "I", "M", "A", "R", "Y", " ", "K", "E", "Y", " ", "(">> \o ident_list(pk) \o <<")">>>> ELSE <<>>)
        \o [i \in 1..Len(uniques) |->
               <<"U", "N", "I", "Q", "U", "E", " ", "(">> \o (IF isstr(uniques[i]) THEN qident(uniques[i].s)
                               ELSE ident_list(elems(uniques[i]))) \o <<")">>]
        \o [i \in 1..Len(checks) |-> <<"C", "H", "E", "C", "K", " ", "(">> \o pystr(checks[i]) \o <<")">>]
        \o [i \in 1..Len(fks) |-> fk_line(fks[i], sch)]

\* the CREATE INDEX statements of the indexes that name columns
index_stmts(obj, fqname, tablespace) ==
    LET indexes == list_or_empty(obj, "indexes")
        stmt(i) ==
            LET ix == indexes[i]
                iname == IF falsy(Get(ix, "name"))
                         THEN Get(obj, "name").s \o <<"_">> \o decimal(i) \o <<"_", "i", "d", "x">>
                         ELSE Get(ix, "name").s
            IN  <<"C", "R", "E", "A", "T", "E", " ">>
                \o (IF to_bool(get_default(ix, "unique", BoolV(FALSE)), FALSE)
                    THEN <<"U", "N", "I", "Q", "U", "E", " ">> ELSE <<>>)
                \o <<"I", "N", "D", "E", "X", " ">> \o qident(iname) \o <<" ", "O", "N", " ">> \o fqname
                \o (IF falsy(Get(ix, "using")) THEN <<>>
                    ELSE <<" ", "U", "S", "I", "N", "G", " ">> \o pystr(Get(ix, "using")))
                \o <<" ", "(">> \o ident_list(name_elems(Get(ix, "columns"))) \o <<")">>
                \o (IF tablespace # <<>> THEN <<" ", "T", "A", "B", "L", "E", "S", "P", "A", "C", "E", " ">> \o qident(tablespace) ELSE <<>>)
                \o <<";">>
        all == [i \in 1..Len(indexes) |->
                   IF falsy(Get(indexes[i], "columns")) THEN <<>> ELSE <<stmt(i)>>]
    IN  Concat(all)

\* the statements of a table, as gen_table_sql joins them; owner and tablespace
\* are the empty text when unset
gen_table_stmts(obj, schema, owner, with_drop, default_varchar_len, tablespace) ==
    LET sch == obj_schema(obj, schema)
        fqname == qident(sch) \o <<".">> \o qident(Get(obj, "name").s)
        columns == elems(Get(obj, "columns"))
        commented == SelectSeq(columns, LAMBDA c : ~falsy(Get(c, "comment")))
    IN  (IF with_drop THEN <<gen_drop_stmt(<<"T", "A", "B", "L", "E">>, fqname)>> ELSE <<>>)
        \o <<<<"C", "R", "E", "A", "T", "E", " ", "T", "A", "B", "L", "E", " ">> \o fqname \o <<" ", "(", "\n", " ", " ", " ", " ">>
              \o join_text(body_parts(obj, sch, default_varchar_len), <<",", "\n", " ", " ", " ", " ">>)
              \o <<"\n", ")">>
              \o (IF tablespace # <<>> THEN <<" ", "T", "A", "B", "L", "E", "S", "P", "A", "C", "E", " ">> \o qident(tablespace) ELSE <<>>)
              \o <<";">>>>
        \o (IF falsy(Get(obj, "comment")) THEN <<>>
            ELSE <<<<"C", "O", "M", "M", "E", "N", "T", " ", "O", "N", " ", "T", "A", "B", "L", "E", " ">> \o fqname \o <<" ", "I", "S", " ">>
                     \o qliteral(Get(obj, "comment")) \o <<";">>>>)
        \o [i \in 1..Len(commented) |->
               <<"C", "O", "M", "M", "E", "N", "T", " ", "O", "N", " ", "C", "O", "L", "U", "M", "N", " ">> \o fqname \o <<".">>
               \o qident(Get(commented[i], "name").s) \o <<" ", "I", "S", " ">>
               \o qliteral(Get(commented[i], "comment")) \o <<";">>]
        \o index_stmts(obj, fqname, tablespace)
        \o (IF owner # <<>>
            THEN <<<<"A", "L", "T", "E", "R", " ", "T", "A", "B", "L", "E", " ">> \o fqname \o <<" ", "O", "W", "N", "E", "R", " ", "T", "O", " ">> \o qident(owner) \o <<";">>>>
            ELSE <<>>)

\* gen_table_sql: raised, or the SQL text
gen_table_sql(obj, schema, owner, with_drop, default_varchar_len, tablespace) ==
    IF gen_table_raises(obj) THEN [ok |-> FALSE, sql |-> <<>>]
    ELSE [ok |-> TRUE,
          sql |-> join_text(gen_table_stmts(obj, schema, owner, with_drop,
                                            default_varchar_len, tablespace), <<"\n">>)]

gen_view_raises(obj) ==
    \/ (~falsy(Get(obj, "schema")) /\ ~isstr(Get(obj, "schema")))
    \/ falsy(Get(obj, "name")) \/ ~isstr(Get(obj, "name"))
    \/ (falsy(Get(obj, "sql")) /\ falsy(Get(obj, "definition")))
    \/ ~isstr(py_or(Get(obj, "sql"), Get(obj, "definition")))

gen_view_sql(obj, schema, owner, with_drop, materialized) ==
    IF gen_view_raises(obj) THEN [ok |-> FALSE, sql |-> <<>>]
    ELSE
    LET fqname == qident(obj_schema(obj, schema)) \o <<".">> \o qident(Get(obj, "name").s)
        kw == IF materialized THEN <<"M", "A", "T", "E", "R", "I", "A", "L", "I", "Z", "E", "D", " ", "V", "I", "E", "W">> ELSE <<"V", "I", "E", "W">>
    IN  [ok |-> TRUE,
         sql |-> join_text(
            (IF with_drop THEN <<gen_drop_stmt(kw, fqname)>> ELSE <<>>)
            \o <<<<"C", "R", "E", "A", "T", "E", " ">> \o kw \o <<" ">> \o fqname \o <<" ", "A", "S", "\n">>
                  \o strip(py_or(Get(obj, "sql"), Get(obj, "definition")).s) \o <<";">>>>
            \o (IF owner # <<>>
                THEN <<<<"A", "L", "T", "E", "R", " ">> \o kw \o <<" ">> \o fqname \o <<" ", "O", "W", "N", "E", "R", " ", "T", "O", " ">>
                         \o qident(owner) \o <<";">>>>
                ELSE <<>>)
            \o (IF falsy(Get(obj, "comment")) THEN <<>>
                ELSE <<<<"C", "O", "M", "M", "E", "N", "T", " ", "O", "N", " ">> \o kw \o <<" ">> \o fqname \o <<" ", "I", "S", " ">>
                         \o qliteral(Get(obj, "comment")) \o <<";">>>>),
            <<"\n">>)]

gen_create_enum(enum_name, values, with_drop, schema, owner) ==
    LET fqname == qident(schema) \o <<".">> \o qident(enum_name)
    IN  join_text(
            (IF with_drop THEN <<gen_drop_stmt(<<"T", "Y", "P", "E">>, fqname)>> ELSE <<>>)
            \o <<<<"C", "R", "E", "A", "T", "E", " ", "T", "Y", "P", "E", " ">> \o fqname \o <<" ", "A", "S", " ", "E", "N", "U", "M", " ", "(">>
                  \o join_text([i \in 1..Len(values) |-> qliteral(Str(values[i]))], <<",", " ">>)
                  \o <<")", ";">>>>
            \o (IF owner # <<>>
                THEN <<<<"A", "L", "T", "E", "R", " ", "T", "Y", "P", "E", " ">> \o fqname \o <<" ", "O", "W", "N", "E", "R", " ", "T", "O", " ">> \o qident(owner) \o <<";">>>>
                ELSE <<>>),
            <<"\n">>)

-----------------------------------------------------------------------------
(* Names and corpora explored *)

P_ID == <<"p", "_", "i", "d">>              \* a field such as pegawai_id
P == <<"p">>                                \* the table its name implies
P_ID_SP == <<" ", "p", "_", "i", "d">>      \* the same name with a leading blank
P_ID_TR == <<"p", "_", "i", "d", " ">>      \* the same name with a trailing blank
P_SP_ID == <<"p", " ", "_", "i", "d">>      \* a name with a blank before the suffix
N == <<"n">>                                \* a field that is no reference
K == <<"k">>                                \* a table such as karyawan
G == <<"g">>                                \* a table such as guru

Files == {"a", "b"}
FieldNames == {P_ID, N}
RefNames == {K, G}

Fld(name) == Map(<<KV("name", Str(name))>>)
FldRef(name, ref) == Map(<<KV("name", Str(name)), KV("ref_table", Str(ref))>>)

\* the contents a corpus file starts with
PatchPool == {
    \* a flat field list, the field not yet patched
    File(<<Map(<<KV("name", Str(K)), KV("fields", List(<<Fld(P_ID), Fld(N)>>))>>)>>),
    \* a field list with a non-mapping element, the field already patched
    File(<<Map(<<KV("fields", List(<<Str(N), FldRef(P_ID, K)>>))>>)>>),
    \* columns under schema, one name padded with a blank
    File(<<Map(<<KV("schema", Map(<<KV("columns",
                    List(<<Fld(P_ID_SP), FldRef(N, G)>>))>>))>>)>>),
    \* the field nested under wrapper keys, and an empty top-level list
    File(<<Map(<<KV("meta", Map(<<KV("inner", List(<<Fld(P_ID)>>))>>)),
                 KV("columns", List(<<>>))>>)>>),
    \* a stream of two documents, the first one empty
    File(<<Null, Map(<<KV("fields", List(<<Fld(P_ID)>>))>>)>>),
    \* text that does not parse
    Unparsable }

NoOp == [kind |-> "none", file |-> "", field |-> <<>>, ref |-> <<>>]

-----------------------------------------------------------------------------
(* The patch scripts, one operation per step *)

PatchInit ==
    /\ disk \in [Files -> PatchPool]
    /\ bak = [f \in Files |-> NoFile]
    /\ orig = disk
    /\ lastOp = NoOp
    /\ lastRet = 0
    /\ lastWrote = FALSE
    /\ repeated = FALSE
    /\ nops = 0
    /\ writes = [f \in Files |-> 0]

Record(op, r) ==
    /\ disk' = [disk EXCEPT ![op.file] = r.file]
    /\ bak' = [bak EXCEPT ![op.file] = r.bak]
    /\ lastOp' = op
    /\ lastRet' = r.ret
    /\ lastWrote' = r.wrote
    /\ repeated' = (op = lastOp)
    /\ nops' = nops + 1
    /\ writes' = [writes EXCEPT ![op.file] = @ + (IF r.wrote THEN 1 ELSE 0)]
    /\ UNCHANGED <<orig, fkVars, emVars, restVars>>

\* apply_fk_patch.main, one entry of TABLE_NAME_PATCH
SetTableName(file, target) ==
    /\ nops < MaxOps
    /\ disk[file].exists
    /\ Record([kind |-> "name", file |-> file, field |-> <<>>, ref |-> target],
              set_table_name(disk[file], bak[file], target))
    /\ UNCHANGED vkVars

\* apply_fk_patch.main, one entry of FK_PATCHES
PatchV1(file, field, ref) ==
    /\ nops < MaxOps
    /\ disk[file].exists
    /\ Record([kind |-> "v1", file |-> file, field |-> field, ref |-> ref],
              set_field_ref_table(disk[file], bak[file], field, ref))
    /\ UNCHANGED vkVars

\* apply_fk_patch_v2.main, one entry of TARGETS
PatchV2(file, field, ref) ==
    /\ nops < MaxOps
    /\ disk[file].exists
    /\ Record([kind |-> "v2", file |-> file, field |-> field, ref |-> ref],
              patch_file(disk[file], bak[file], field, ref))
    /\ UNCHANGED vkVars

\* --default-varchar-len
DefaultVarcharLen == 255

\* the command line; owner and tablespace are the empty text when unset
Config(strict, with_drop, owner) ==
    [schema |-> <<"p", "u", "b", "l", "i", "c">>, owner |-> owner, with_drop |-> with_drop,
     default_varchar_len |-> DefaultVarcharLen, tablespace |-> <<>>,
     create_extensions |-> <<>>, strict |-> strict]

NoText == [exists |-> FALSE, text |-> <<>>]
NoRun == [output |-> <<>>, written |-> NoText, status |-> -1]

\* the locals of generate_sql_from_yaml.main before its first statement
EmFresh(pc) ==
    /\ em_pc = pc /\ em_i = 0 /\ em_enums = <<>> /\ em_tables = <<>>
    /\ em_views = <<>> /\ em_errors = <<>> /\ em_log = <<>> /\ em_output = <<>>
    /\ em_written = NoText /\ em_status = -1
    /\ em_files = <<>> /\ em_second = FALSE /\ em_prev = NoRun
EmIdle == em_corpus = <<>> /\ em_cfg = Config(FALSE, FALSE, <<>>) /\ EmFresh("idle")

VkIdle ==
    /\ vk_pc = "idle" /\ vk_i = 0 /\ vk_tables = {} /\ vk_docs = <<>>
    /\ vk_parse_errors = <<>> /\ vk_all_fk = <<>> /\ vk_missing = <<>>
    /\ vk_ret = -1 /\ vk_dir = FALSE
FkIdle == fk_field = Null /\ fk_out = <<>> /\ fk_done = FALSE
\* no first run yet
NoCorpus == [disk |-> <<>>, bak |-> <<>>]
RunFresh ==
    /\ m2_pc = "idle" /\ m2_i = 0 /\ m2_j = 0 /\ m2_not_found = <<>>
    /\ m2_found_any = 0 /\ m2_files_changed = 0 /\ m2_fields_patched = 0
    /\ m2_ret = -1
    /\ m2_second = FALSE /\ m2_prev = NoCorpus
RunIdle == m2_dir = FALSE /\ RunFresh
NodeIdle ==
    /\ pn_node = Null /\ pn_field = <<>> /\ pn_ref = <<>>
    /\ pn_out = [node |-> Null, changed |-> 0] /\ pn_done = FALSE
TypeIdle == ty_col = Null /\ ty_len = DefaultVarcharLen /\ ty_out = [ok |-> FALSE, sql |-> <<>>] /\ ty_done = FALSE
RefIdle == pr_in = <<>> /\ pr_out = <<>> /\ pr_done = FALSE
RestIdle == RunIdle /\ NodeIdle /\ TypeIdle /\ RefIdle
Init == PatchInit /\ VkIdle /\ FkIdle /\ EmIdle /\ RestIdle

Next ==
    \/ \E file \in Files, target \in RefNames : SetTableName(file, target)
    \/ \E file \in Files, field \in FieldNames, ref \in RefNames :
          PatchV1(file, field, ref)
    \/ \E file \in Files, field \in FieldNames, ref \in RefNames :
          PatchV2(file, field, ref)

Spec == Init /\ [][Next]_vars

-----------------------------------------------------------------------------
(* validate_fk.main, step by step, and the patch of a reported field *)

\* the corpus files in sorted order; the file "x" is x.yaml
CheckFiles == <<"a", "b", "p">>
CheckFileSet == {CheckFiles[i] : i \in 1..Len(CheckFiles)}
\* Path.stem
stem(file) == <<file>>

Ref(name, key, target) == Map(<<KV("name", Str(name)), KV(key, Str(target))>>)

CheckPool == {
    \* table k (named), field p_id implying table p
    File(<<Map(<<KV("name", Str(K)), KV("fields", List(<<Fld(P_ID), Fld(N)>>))>>)>>),
    \* table named by the file, p_id with ref_table k
    File(<<Map(<<KV("fields", List(<<FldRef(P_ID, K)>>))>>)>>),
    \* table p (name padded), a dotted reference to k under schema.columns
    File(<<Map(<<KV("name", Str(<<" ", "p", " ">>)),
                 KV("schema", Map(<<KV("columns",
                     List(<<Str(N), Ref(N, "references", <<"k", ".", "i", "d">>)>>))>>))>>)>>),
    \* table g, fields without any candidate
    File(<<Map(<<KV("table", Str(G)),
                 KV("fields", List(<<Fld(<<"_", "i", "d">>), Fld(N)>>))>>)>>),
    \* an empty file
    File(<<>>),
    \* text that does not parse
    Unparsable,
    \* no such file
    NoFile }

yaml_files == SelectSeq(CheckFiles, LAMBDA f : disk[f].exists)

CheckInit ==
    /\ \/ vk_dir = TRUE /\ disk \in [CheckFileSet -> CheckPool]
       \/ vk_dir = FALSE /\ disk = [f \in CheckFileSet |-> NoFile]
    /\ bak = [f \in CheckFileSet |-> NoFile]
    /\ orig = disk
    /\ lastOp = NoOp /\ lastRet = 0 /\ lastWrote = FALSE /\ repeated = FALSE
    /\ nops = 0
    /\ writes = [f \in CheckFileSet |-> 0]
    /\ vk_pc = "idle" /\ vk_i = 0 /\ vk_tables = {} /\ vk_docs = <<>>
    /\ vk_parse_errors = <<>> /\ vk_all_fk = <<>> /\ vk_missing = <<>>
    /\ vk_ret = -1
    /\ FkIdle /\ EmIdle /\ RestIdle

VkFresh ==
    /\ vk_tables' = {} /\ vk_docs' = <<>> /\ vk_parse_errors' = <<>>
    /\ vk_all_fk' = <<>> /\ vk_missing' = <<>>

\* main up to the first loop: the directory and the file list
VkStart ==
    /\ vk_pc = "idle"
    /\ VkFresh
    /\ IF ~vk_dir \/ yaml_files = <<>>
       THEN vk_pc' = "done" /\ vk_ret' = 2 /\ vk_i' = 0
       ELSE vk_pc' = "load" /\ vk_ret' = -1 /\ vk_i' = 1
    /\ UNCHANGED <<vk_dir, patchVars, fkVars, emVars, restVars>>

\* one iteration of the loop that loads the files and registers the tables
VkLoad ==
    /\ vk_pc = "load"
    /\ LET path == yaml_files[vk_i]
           doc == load_yaml(disk[path])
       IN  /\ vk_docs' = Append(vk_docs, [file |-> path, doc |-> doc])
           /\ IF is_parse_error(doc)
              THEN /\ vk_parse_errors' = Append(vk_parse_errors, path)
                   /\ UNCHANGED vk_tables
              ELSE /\ vk_tables' = vk_tables \cup {infer_table_name(doc, stem(path))}
                   /\ UNCHANGED vk_parse_errors
    /\ IF vk_i < Len(yaml_files)
       THEN vk_i' = vk_i + 1 /\ UNCHANGED vk_pc
       ELSE vk_i' = 1 /\ vk_pc' = "check"
    /\ UNCHANGED <<vk_all_fk, vk_missing, vk_ret, vk_dir, patchVars, fkVars, emVars, restVars>>

\* one iteration of the loop that checks the candidates of a document
VkCheck ==
    /\ vk_pc = "check"
    /\ LET e == vk_docs[vk_i]
           table_name == infer_table_name(e.doc, stem(e.file))
           fks == find_fk_targets(iter_fields(e.doc))
           miss == SelectSeq(fks, LAMBDA c : is_missing(c[2], vk_tables))
       IN  IF is_parse_error(e.doc)
           THEN UNCHANGED <<vk_all_fk, vk_missing>>
           ELSE /\ vk_all_fk' = vk_all_fk
                      \o [i \in 1..Len(fks) |-> <<table_name, fks[i][1], fks[i][2]>>]
                /\ vk_missing' = vk_missing
                      \o [i \in 1..Len(miss) |-> <<table_name, e.file, miss[i][1], miss[i][2]>>]
    /\ IF vk_i < Len(vk_docs)
       THEN vk_i' = vk_i + 1 /\ UNCHANGED vk_pc
       ELSE vk_i' = 0 /\ vk_pc' = "report"
    /\ UNCHANGED <<vk_tables, vk_docs, vk_parse_errors, vk_ret, vk_dir,
                   patchVars, fkVars, emVars, restVars>>

\* the report and the exit code
VkFinish ==
    /\ vk_pc = "report"
    /\ vk_ret' = exit_code(vk_missing, vk_parse_errors)
    /\ vk_pc' = "done"
    /\ UNCHANGED <<vk_i, vk_tables, vk_docs, vk_parse_errors, vk_all_fk, vk_missing,
                   vk_dir, patchVars, fkVars, emVars, restVars>>

reported(file, field) ==
    \E i \in 1..Len(vk_missing) : vk_missing[i][2] = file /\ vk_missing[i][3] = field

\* a patch script run on a field the checker reported, before the next check
VkPatch(kind, file, field, ref) ==
    /\ vk_pc = "done"
    /\ nops < MaxRepatch
    /\ reported(file, field)
    /\ Record([kind |-> kind, file |-> file, field |-> field, ref |-> ref],
              IF kind = "v1"
              THEN set_field_ref_table(disk[file], bak[file], field, ref)
              ELSE patch_file(disk[file], bak[file], field, ref))
    /\ VkFresh
    /\ vk_pc' = "idle" /\ vk_i' = 0 /\ vk_ret' = -1
    /\ UNCHANGED vk_dir

CheckNext ==
    \/ VkStart
    \/ VkLoad
    \/ VkCheck
    \/ VkFinish
    \/ \E kind \in {"v1", "v2"}, file \in CheckFileSet, field \in FieldNames,
          ref \in RefNames : VkPatch(kind, file, field, ref)

SpecCheck == CheckInit /\ [][CheckNext]_vars

-----------------------------------------------------------------------------
(* find_fk_targets applied to one field *)

Opt(key, values) == {<<>>} \cup {<<KV(key, v)>> : v \in values}

\* the fields explored: every combination of the recognised attributes
FkFieldPool ==
    { Map(nm \o rt \o fk \o rf \o ty \o tg \o rl \o m2) :
        nm \in Opt("name", {Str(P_ID), Str(P_ID_SP), Str(P_ID_TR), Str(P_SP_ID),
                              Str(ID_SUFFIX), Str(N)}),
        rt \in Opt("ref_table", {Str(K), Str(P), Str(<<" ">>)}),
        fk \in Opt("fk", {Map(<<KV("ref_table", Str(G))>>)}),
        rf \in Opt("references", {Str(<<"k", ".", "i", "d">>), Str(<<"s", ".", "k", ".", "i", "d">>)}),
        ty \in Opt("type", {Str(<<"F", "K">>), Str(<<"t", "e", "x", "t">>)}),
        tg \in Opt("target", {Str(<<"g", ".", "i", "d">>)}),
        rl \in Opt("relation", {Str(G)}),
        m2 \in Opt("many2one", {Map(<<KV("model", Str(K))>>)}) }

FkInit ==
    /\ fk_field \in FkFieldPool
    /\ fk_out = <<>>
    /\ fk_done = FALSE
    /\ disk = [f \in Files |-> NoFile] /\ bak = disk /\ orig = disk
    /\ lastOp = NoOp /\ lastRet = 0 /\ lastWrote = FALSE /\ repeated = FALSE
    /\ nops = 0 /\ writes = [f \in Files |-> 0]
    /\ VkIdle /\ EmIdle /\ RestIdle

\* find_fk_targets on the list holding the field
FindFkTargets ==
    /\ ~fk_done
    /\ fk_out' = find_fk_targets(<<fk_field>>)
    /\ fk_done' = TRUE
    /\ UNCHANGED <<fk_field, patchVars, vkVars, emVars, restVars>>

FkNext == FindFkTargets

SpecFk == FkInit /\ [][FkNext]_vars

-----------------------------------------------------------------------------
(* generate_sql_from_yaml.main, step by step *)

\* glob.glob: the paths of the files that exist, in any order; a path is the
\* rank of the file in the sorted order of the paths
glob(corpus) ==
    LET paths == {i \in 1..Len(corpus) : corpus[i].exists}
    IN  {l \in [1..Cardinality(paths) -> paths] :
            \A i, j \in 1..Cardinality(paths) : l[i] = l[j] => i = j}

collect_yaml_files_unsorted(corpus, listing) ==
    [i \in 1..Len(listing) |-> corpus[listing[i]]]

\* collect_yaml_files: sorted(files), then the contents of each path
collect_yaml_files(corpus, listing) ==
    [i \in 1..Len(listing) |-> corpus[SortSeq(listing, <)[i]]]

\* (data.get("kind") or data.get("type") or "table")
kind_value(data) == py_or(Get(data, "kind"), py_or(Get(data, "type"), Str(<<"t", "a", "b", "l", "e">>)))

\* data.get("values") or data.get("items")
enum_values(data) == py_or(Get(data, "values"), Get(data, "items"))

\* what the body of the file loop raises on; a name that is a list or a mapping
\* is no key of enum_registry.  The enums of the corpora explored are named by
\* strings.
parse_raises(f) ==
    \/ safe_load_raises(f)
    \/ ~isdict(parse_yaml_file(f))
    \/ ~isstr(kind_value(parse_yaml_file(f)))
    \/ /\ lower(strip(kind_value(parse_yaml_file(f)).s)) = <<"e", "n", "u", "m">>
       /\ \/ falsy(Get(parse_yaml_file(f), "name"))
          \/ isdict(Get(parse_yaml_file(f), "name"))
          \/ islist(Get(parse_yaml_file(f), "name"))
          \/ ~islist(enum_values(parse_yaml_file(f)))
          \/ falsy(enum_values(parse_yaml_file(f)))

\* enum_registry[ename] = vals
registry_put(reg, ename, vals) ==
    IF \E i \in 1..Len(reg) : reg[i].name = ename
    THEN [i \in 1..Len(reg) |-> IF reg[i].name = ename
                                 THEN [name |-> ename, vals |-> vals] ELSE reg[i]]
    ELSE Append(reg, [name |-> ename, vals |-> vals])

\* the lines of output before the tables
header(cfg, enums) ==
    <<<<"-", "-", " ", "A", "u", "t", "o", "-", "g", "e", "n", "e", "r", "a", "t", "e", "d", " ", "b", "y", " ", "s", "c", "r", "i", "p", "t", "s", "/", "g", "e", "n", "e", "r", "a", "t", "e", "_", "s", "q", "l", "_", "f", "r", "o", "m", "_", "y", "a", "m", "l", ".", "p", "y">>,
      <<"-", "-", " ", "D", "o", " ", "n", "o", "t", " ", "e", "d", "i", "t", " ", "m", "a", "n", "u", "a", "l", "l", "y", ".">>,
      <<"S", "E", "T", " ", "c", "l", "i", "e", "n", "t", "_", "m", "i", "n", "_", "m", "e", "s", "s", "a", "g", "e", "s", " ", "=", " ", "W", "A", "R", "N", "I", "N", "G", ";">>,
      <<>>>>
    \o [i \in 1..Len(cfg.create_extensions) |->
           <<"C", "R", "E", "A", "T", "E", " ", "E", "X", "T", "E", "N", "S", "I", "O", "N", " ", "I", "F", " ", "N", "O", "T", " ", "E", "X", "I", "S", "T", "S", " ">> \o qident(cfg.create_extensions[i]) \o <<";">>]
    \o <<<<"C", "R", "E", "A", "T", "E", " ", "S", "C", "H", "E", "M", "A", " ", "I", "F", " ", "N", "O", "T", " ", "E", "X", "I", "S", "T", "S", " ">> \o qident(cfg.schema) \o <<";">>>>
    \o (IF cfg.owner # <<>>
        THEN <<<<"A", "L", "T", "E", "R", " ", "S", "C", "H", "E", "M", "A", " ">> \o qident(cfg.schema) \o <<" ", "O", "W", "N", "E", "R", " ", "T", "O", " ">>
                 \o qident(cfg.owner) \o <<";">>>>
        ELSE <<>>)
    \o << <<>> >>
    \o Concat([i \in 1..Len(enums) |->
           <<gen_create_enum(enums[i].name, enums[i].vals, cfg.with_drop,
                             cfg.schema, cfg.owner), <<>>>>])

\* the loop that follows the tables, the views or nothing
after_tables(views) == IF views # <<>> THEN "views" ELSE "write"
after_header(tables, views) == IF tables # <<>> THEN "tables" ELSE after_tables(views)

EmExit(status) ==
    /\ em_pc' = "done"
    /\ em_status' = status

\* main up to the file loop
EmStart ==
    /\ em_pc = "start"
    /\ \E listing \in glob(em_corpus) :
          em_files' = collect_yaml_files(em_corpus, listing)
    /\ IF em_files' = <<>>
       THEN IF em_cfg.strict
            THEN EmExit(1) /\ UNCHANGED em_i
            ELSE em_pc' = "header" /\ em_i' = 0 /\ UNCHANGED em_status
       ELSE em_pc' = "parse" /\ em_i' = 1 /\ UNCHANGED em_status
    /\ UNCHANGED <<em_corpus, em_cfg, em_second, em_prev, em_enums, em_tables, em_views, em_errors, em_log,
                   em_output, em_written, patchVars, vkVars, fkVars, restVars>>

\* one iteration of the loop over the files
EmParse ==
    /\ em_pc = "parse"
    /\ LET f == em_files[em_i]
           data == parse_yaml_file(f)
           kind == lower(strip(kind_value(data).s))
       IN  IF parse_raises(f)
           THEN /\ em_errors' = Append(em_errors, em_i)
                /\ UNCHANGED <<em_tables, em_views, em_enums>>
           ELSE /\ UNCHANGED em_errors
                /\ em_tables' = IF kind \in {<<"t", "a", "b", "l", "e">>, <<"t", "a", "b", "e", "l">>}
                                THEN Append(em_tables, data) ELSE em_tables
                /\ em_views' =
                      IF kind = <<"v", "i", "e", "w">>
                      THEN Append(em_views, [obj |-> data, materialized |-> FALSE])
                      ELSE IF kind \in {<<"m", "a", "t", "e", "r", "i", "a", "l", "i", "z", "e", "d", "_", "v", "i", "e", "w">>, <<"m", "v", "i", "e", "w">>, <<"m", "v">>}
                      THEN Append(em_views, [obj |-> data, materialized |-> TRUE])
                      ELSE em_views
                /\ em_enums' =
                      IF kind = <<"e", "n", "u", "m">>
                      THEN registry_put(em_enums, Get(data, "name").s,
                              [i \in 1..Len(enum_values(data).items) |->
                                  pystr(enum_values(data).items[i].v)])
                      ELSE em_enums
    /\ IF em_i < Len(em_files)
       THEN em_i' = em_i + 1 /\ UNCHANGED em_pc
       ELSE em_i' = 0 /\ em_pc' = "header"
    /\ UNCHANGED <<em_corpus, em_cfg, em_files, em_second, em_prev, em_log, em_output, em_written, em_status,
                   patchVars, vkVars, fkVars, restVars>>

\* the check of the collected errors, and the output before the tables
EmHeader ==
    /\ em_pc = "header"
    /\ IF em_errors # <<>> /\ em_cfg.strict
       THEN EmExit(1) /\ UNCHANGED <<em_i, em_output>>
       ELSE /\ em_output' = header(em_cfg, em_enums)
            /\ em_pc' = after_header(em_tables, em_views)
            /\ em_i' = 1
            /\ UNCHANGED em_status
    /\ UNCHANGED <<em_corpus, em_cfg, em_files, em_second, em_prev, em_enums, em_tables, em_views, em_errors, em_log,
                   em_written, patchVars, vkVars, fkVars, restVars>>

EmTable_keep_going ==
    /\ em_pc = "tables"
    /\ LET obj == em_tables[em_i]
           r == gen_table_sql(obj, em_cfg.schema, em_cfg.owner, em_cfg.with_drop,
                              em_cfg.default_varchar_len, em_cfg.tablespace)
           last == em_i = Len(em_tables)
       IN  IF r.ok
           THEN /\ em_output' = em_output \o <<r.sql, <<>>>>
                /\ em_pc' = IF last THEN after_tables(em_views) ELSE em_pc
                /\ em_i' = IF last THEN 1 ELSE em_i + 1
                /\ UNCHANGED <<em_log, em_status>>
           ELSE /\ em_log' = Append(em_log,
                      [kind |-> "TABLE ERROR",
                       name |-> pystr(get_default(obj, "name", Str(<<"<", "u", "n", "k", "n", "o", "w", "n", ">">>)))])
                /\ em_pc' = IF last THEN after_tables(em_views) ELSE em_pc
                /\ em_i' = IF last THEN 1 ELSE em_i + 1
                /\ UNCHANGED em_status
                /\ UNCHANGED em_output
    /\ UNCHANGED <<em_corpus, em_cfg, em_files, em_second, em_prev, em_enums, em_tables, em_views, em_errors,
                   em_written, patchVars, vkVars, fkVars, restVars>>

\* one iteration of the loop over the tables
EmTable ==
    /\ em_pc = "tables"
    /\ LET obj == em_tables[em_i]
           r == gen_table_sql(obj, em_cfg.schema, em_cfg.owner, em_cfg.with_drop,
                              em_cfg.default_varchar_len, em_cfg.tablespace)
           last == em_i = Len(em_tables)
       IN  IF r.ok
           THEN /\ em_output' = em_output \o <<r.sql, <<>>>>
                /\ em_pc' = IF last THEN after_tables(em_views) ELSE em_pc
                /\ em_i' = IF last THEN 1 ELSE em_i + 1
                /\ UNCHANGED <<em_log, em_status>>
           ELSE /\ em_log' = Append(em_log,
                      [kind |-> "TABLE ERROR",
                       name |-> pystr(get_default(obj, "name", Str(<<"<", "u", "n", "k", "n", "o", "w", "n", ">">>)))])
                /\ IF em_cfg.strict
                   THEN EmExit(1) /\ UNCHANGED em_i
                   ELSE /\ em_pc' = IF last THEN after_tables(em_views) ELSE em_pc
                        /\ em_i' = IF last THEN 1 ELSE em_i + 1
                        /\ UNCHANGED em_status
                /\ UNCHANGED em_output
    /\ UNCHANGED <<em_corpus, em_cfg, em_files, em_second, em_prev, em_enums, em_tables, em_views, em_errors,
                   em_written, patchVars, vkVars, fkVars, restVars>>

\* one iteration of the loop over the views
EmView ==
    /\ em_pc = "views"
    /\ LET v == em_views[em_i]
           r == gen_view_sql(v.obj, em_cfg.schema, em_cfg.owner, em_cfg.with_drop,
                             v.materialized)
           last == em_i = Len(em_views)
       IN  IF r.ok
           THEN /\ em_output' = em_output \o <<r.sql, <<>>>>
                /\ em_pc' = IF last THEN "write" ELSE em_pc
                /\ em_i' = IF last THEN 0 ELSE em_i + 1
                /\ UNCHANGED <<em_log, em_status>>
           ELSE /\ em_log' = Append(em_log,
                      [kind |-> "VIEW ERROR",
                       name |-> pystr(get_default(v.obj, "name", Str(<<"<", "u", "n", "k", "n", "o", "w", "n", ">">>)))])
                /\ IF em_cfg.strict
                   THEN EmExit(1) /\ UNCHANGED em_i
                   ELSE /\ em_pc' = IF last THEN "write" ELSE em_pc
                        /\ em_i' = IF last THEN 0 ELSE em_i + 1
                        /\ UNCHANGED em_status
                /\ UNCHANGED em_output
    /\ UNCHANGED <<em_corpus, em_cfg, em_files, em_second, em_prev, em_enums, em_tables, em_views, em_errors,
                   em_written, patchVars, vkVars, fkVars, restVars>>

\* the output file
EmWrite ==
    /\ em_pc = "write"
    /\ em_written' = [exists |-> TRUE,
                      text |-> strip(join_text(em_output, <<"\n">>)) \o <<"\n">>]
    /\ EmExit(0)
    /\ UNCHANGED <<em_corpus, em_cfg, em_files, em_second, em_prev, em_i, em_enums, em_tables, em_views, em_errors,
                   em_log, em_output, patchVars, vkVars, fkVars, restVars>>

Col(name, type) == Map(<<KV("name", Str(name)), KV("type", Str(type))>>)
ColPk(name, type) ==
    Map(<<KV("name", Str(name)), KV("type", Str(type)), KV("primary_key", BoolV(TRUE))>>)

\* the contents of the files under --struktur-dir
EmPool == {
    \* table a with a foreign key to b
    File(<<Map(<<KV("name", Str(<<"a">>)),
                 KV("columns", List(<<ColPk(<<"i", "d">>, <<"i", "n", "t", "e", "g", "e", "r">>), Col(<<"b", "_", "i", "d">>, <<"u", "u", "i", "d">>)>>)),
                 KV("foreign_keys", List(<<Map(<<
                     KV("columns", List(<<Str(<<"b", "_", "i", "d">>)>>)),
                     KV("ref_table", Str(<<"b">>))>>)>>))>>)>>),
    \* table b without foreign key, its primary key a list
    File(<<Map(<<KV("kind", Str(<<"T", "a", "b", "l", "e">>)), KV("name", Str(<<"b">>)),
                 KV("columns", List(<<Col(<<"i", "d">>, <<"u", "u", "i", "d">>)>>)),
                 KV("primary_key", List(<<Str(<<"i", "d">>)>>)),
                 KV("comment", Str(<<"b", "'", "s">>))>>)>>),
    \* table b with a foreign key to a under the key references
    File(<<Map(<<KV("name", Str(<<"b">>)),
                 KV("columns", List(<<Col(<<"i", "d">>, <<"v", "a", "r", "c", "h", "a", "r">>),
                     Map(<<KV("name", Str(<<"a", "_", "i", "d">>)), KV("type", Str(<<"i", "n", "t">>)),
                           KV("nullable", BoolV(FALSE))>>)>>)),
                 KV("references", List(<<Map(<<
                     KV("columns", List(<<Str(<<"a", "_", "i", "d">>)>>)),
                     KV("ref_table", Str(<<"a">>)),
                     KV("ref_columns", List(<<Str(<<"i", "d">>)>>)),
                     KV("on_delete", Str(<<"c", "a", "s", "c", "a", "d", "e">>))>>)>>))>>)>>),
    \* a table without columns
    File(<<Map(<<KV("name", Str(<<"c">>))>>)>>),
    \* table d, two columns marked primary_key
    File(<<Map(<<KV("name", Str(<<"d">>)),
                 KV("columns", List(<<ColPk(<<"x">>, <<"i", "n", "t", "e", "g", "e", "r">>), ColPk(<<"y">>, <<"t", "e", "x", "t">>)>>))>>)>>),
    \* an enum
    File(<<Map(<<KV("kind", Str(<<"e", "n", "u", "m">>)), KV("name", Str(<<"e">>)),
                 KV("values", List(<<Str(<<"x">>), Str(<<"y">>)>>))>>)>>),
    \* a view
    File(<<Map(<<KV("kind", Str(<<"v", "i", "e", "w">>)), KV("name", Str(<<"v">>)),
                 KV("sql", Str(<<"s", "e", "l", "e", "c", "t", " ", "1">>))>>)>>),
    \* a materialized view without sql or definition
    File(<<Map(<<KV("kind", Str(<<"m", "v", "i", "e", "w">>)), KV("name", Str(<<"w">>))>>)>>),
    \* text that does not parse
    Unparsable,
    \* no such file
    NoFile }

EmInit ==
    /\ em_corpus \in EmPool \X EmPool \X EmPool
    /\ em_cfg \in {Config(st, dr.with_drop, dr.owner) :
                     st \in BOOLEAN,
                     dr \in {[with_drop |-> TRUE, owner |-> <<>>],
                             [with_drop |-> FALSE, owner |-> <<"o">>]}}
    /\ EmFresh("start")
    /\ disk = [f \in Files |-> NoFile] /\ bak = disk /\ orig = disk
    /\ lastOp = NoOp /\ lastRet = 0 /\ lastWrote = FALSE /\ repeated = FALSE
    /\ nops = 0 /\ writes = [f \in Files |-> 0]
    /\ VkIdle /\ FkIdle /\ RestIdle

\* the emitter started again on the corpus and the command line of the first run
EmRerun ==
    /\ em_pc = "done" /\ ~em_second
    /\ em_second' = TRUE
    /\ em_prev' = [output |-> em_output, written |-> em_written, status |-> em_status]
    /\ em_pc' = "start" /\ em_i' = 0 /\ em_enums' = <<>> /\ em_tables' = <<>>
    /\ em_views' = <<>> /\ em_errors' = <<>> /\ em_log' = <<>> /\ em_output' = <<>>
    /\ em_files' = <<>> /\ em_status' = -1
    /\ UNCHANGED <<em_corpus, em_cfg, em_written, patchVars, vkVars, fkVars, restVars>>

EmNext ==
    \/ EmRerun
    \/ EmStart
    \/ EmParse
    \/ EmHeader
    \/ EmTable
    \/ EmView
    \/ EmWrite

SpecEmit == EmInit /\ [][EmNext]_vars

-----------------------------------------------------------------------------
(* apply_fk_patch_v2.main, step by step *)

RunFiles == {"a", "b", "c", "d"}
RunOrder == <<"a", "b", "c", "d">>

\* the list TARGETS: (file, field, ref)
TARGETS == <<[file |-> "a", field |-> P_ID, ref |-> K],
             [file |-> "b", field |-> N, ref |-> G]>>

\* scan_all_yaml: the files under the root, sorted
scan_all_yaml(d) == SelectSeq(RunOrder, LAMBDA f : d[f].exists)

\* the contents a file of the corpus starts with
RunPool == {
    \* a flat field list, no field patched
    File(<<Map(<<KV("name", Str(K)), KV("fields", List(<<Fld(P_ID), Fld(N)>>))>>)>>),
    \* a non-mapping element, p_id already referring to k
    File(<<Map(<<KV("fields", List(<<Str(N), FldRef(P_ID, K)>>))>>)>>),
    \* the fields nested under wrapper keys, n already referring to g
    File(<<Map(<<KV("meta", Map(<<KV("inner", List(<<Fld(P_ID), FldRef(N, G)>>))>>)),
                 KV("columns", List(<<>>))>>)>>),
    \* a stream of two documents, the first one empty
    File(<<Null, Map(<<KV("fields", List(<<Fld(P_ID)>>))>>)>>),
    \* no field of either name
    File(<<Map(<<KV("name", Str(G)), KV("fields", List(<<Fld(ID_SUFFIX)>>))>>)>>),
    \* text that does not parse
    Unparsable,
    \* no such file
    NoFile }

\* the contents of the last file of the corpus, which is no target
RunPoolLast == {
    File(<<Map(<<KV("name", Str(K)), KV("fields", List(<<Fld(P_ID), Fld(N)>>))>>)>>),
    Unparsable,
    NoFile }

RunInit ==
    /\ \/ /\ m2_dir = TRUE
          /\ disk \in [RunFiles -> RunPool]
          /\ disk["d"] \in RunPoolLast
       \/ m2_dir = FALSE /\ disk = [f \in RunFiles |-> NoFile]
    /\ bak = [f \in RunFiles |-> NoFile]
    /\ orig = disk
    /\ lastOp = NoOp /\ lastRet = 0 /\ lastWrote = FALSE /\ repeated = FALSE
    /\ nops = 0
    /\ writes = [f \in RunFiles |-> 0]
    /\ RunFresh
    /\ VkIdle /\ FkIdle /\ EmIdle /\ NodeIdle /\ TypeIdle /\ RefIdle

\* main up to the first loop
RunStart ==
    /\ m2_pc = "idle"
    /\ IF ~m2_dir
       THEN m2_pc' = "done" /\ m2_ret' = 2 /\ m2_i' = 0
       ELSE m2_pc' = "targets" /\ m2_ret' = -1 /\ m2_i' = 1
    /\ UNCHANGED <<m2_dir, m2_second, m2_prev, m2_j, m2_not_found, m2_found_any, m2_files_changed,
                   m2_fields_patched, patchVars, vkVars, fkVars, emVars,
                   nodeVars, typeVars, refVars>>

\* the effect of one call of patch_file on the corpus and on the totals
RunApply(file, r) ==
    /\ disk' = [disk EXCEPT ![file] = r.file]
    /\ bak' = [bak EXCEPT ![file] = r.bak]
    /\ writes' = [writes EXCEPT ![file] = @ + (IF r.wrote THEN 1 ELSE 0)]
    /\ m2_files_changed' = m2_files_changed + (IF r.ret > 0 THEN 1 ELSE 0)
    /\ m2_fields_patched' = m2_fields_patched + (IF r.ret > 0 THEN r.ret ELSE 0)

\* one iteration of the loop over TARGETS; an exception of patch_file ends main
RunTarget ==
    /\ m2_pc = "targets"
    /\ LET t == TARGETS[m2_i]
           r == patch_file(disk[t.file], bak[t.file], t.field, t.ref)
           nf == IF ~disk[t.file].exists \/ r.ret = 0
                 THEN Append(m2_not_found, t) ELSE m2_not_found
       IN  IF disk[t.file].exists /\ r.ret = -1
           THEN /\ m2_pc' = "done" /\ m2_ret' = 1
                /\ UNCHANGED <<disk, bak, writes, m2_i, m2_j, m2_not_found,
                               m2_found_any, m2_files_changed, m2_fields_patched>>
           ELSE /\ IF disk[t.file].exists
                   THEN RunApply(t.file, r)
                   ELSE UNCHANGED <<disk, bak, writes, m2_files_changed,
                                    m2_fields_patched>>
                /\ m2_not_found' = nf
                /\ m2_found_any' = 0
                /\ IF m2_i < Len(TARGETS)
                   THEN m2_i' = m2_i + 1 /\ m2_j' = 0 /\ UNCHANGED m2_pc
                   ELSE /\ m2_i' = 1 /\ m2_j' = 1
                        /\ m2_pc' = IF nf # <<>> /\ scan_all_yaml(disk) # <<>>
                                    THEN "fallback" ELSE "summary"
                /\ UNCHANGED m2_ret
    /\ UNCHANGED <<m2_dir, m2_second, m2_prev, orig, lastOp, lastRet, lastWrote, repeated, nops,
                   vkVars, fkVars, emVars, nodeVars, typeVars, refVars>>

RunFallback_first_match ==
    /\ m2_pc = "fallback"
    /\ LET t == m2_not_found[m2_i]
           file == scan_all_yaml(disk)[m2_j]
           r == patch_file(disk[file], bak[file], t.field, t.ref)
       IN  /\ IF r.ret = -1
              THEN UNCHANGED <<disk, bak, writes, m2_files_changed, m2_fields_patched>>
              ELSE RunApply(file, r)
           /\ IF m2_j < Len(scan_all_yaml(disk)) /\ r.ret <= 0
              THEN /\ m2_j' = m2_j + 1
                   /\ m2_found_any' = m2_found_any + (IF r.ret > 0 THEN r.ret ELSE 0)
                   /\ UNCHANGED <<m2_i, m2_pc>>
              ELSE /\ m2_j' = 1 /\ m2_found_any' = 0
                   /\ IF m2_i < Len(m2_not_found)
                      THEN m2_i' = m2_i + 1 /\ UNCHANGED m2_pc
                      ELSE m2_i' = 0 /\ m2_pc' = "summary"
    /\ UNCHANGED <<m2_dir, m2_second, m2_prev, m2_not_found, m2_ret, orig, lastOp, lastRet, lastWrote,
                   repeated, nops, vkVars, fkVars, emVars, nodeVars, typeVars, refVars>>

\* one iteration of the inner loop of the fallback: patch_file on one file of
\* the corpus for one entry of not_found
RunFallback ==
    /\ m2_pc = "fallback"
    /\ LET t == m2_not_found[m2_i]
           file == scan_all_yaml(disk)[m2_j]
           r == patch_file(disk[file], bak[file], t.field, t.ref)
       IN  /\ IF r.ret = -1
              THEN UNCHANGED <<disk, bak, writes, m2_files_changed, m2_fields_patched>>
              ELSE RunApply(file, r)
           /\ IF m2_j < Len(scan_all_yaml(disk))
              THEN /\ m2_j' = m2_j + 1
                   /\ m2_found_any' = m2_found_any + (IF r.ret > 0 THEN r.ret ELSE 0)
                   /\ UNCHANGED <<m2_i, m2_pc>>
              ELSE /\ m2_j' = 1 /\ m2_found_any' = 0
                   /\ IF m2_i < Len(m2_not_found)
                      THEN m2_i' = m2_i + 1 /\ UNCHANGED m2_pc
                      ELSE m2_i' = 0 /\ m2_pc' = "summary"
    /\ UNCHANGED <<m2_dir, m2_second, m2_prev, m2_not_found, m2_ret, orig, lastOp, lastRet, lastWrote,
                   repeated, nops, vkVars, fkVars, emVars, nodeVars, typeVars, refVars>>

\* the summary and the return
RunFinish ==
    /\ m2_pc = "summary"
    /\ m2_pc' = "done" /\ m2_ret' = 0
    /\ UNCHANGED <<m2_dir, m2_second, m2_prev, m2_i, m2_j, m2_not_found, m2_found_any, m2_files_changed,
                   m2_fields_patched, patchVars, vkVars, fkVars, emVars,
                   nodeVars, typeVars, refVars>>

\* main started again on the corpus the first run left
RunRerun ==
    /\ m2_pc = "done" /\ ~m2_second
    /\ m2_second' = TRUE
    /\ m2_prev' = [disk |-> disk, bak |-> bak]
    /\ m2_pc' = "idle" /\ m2_i' = 0 /\ m2_j' = 0 /\ m2_not_found' = <<>>
    /\ m2_found_any' = 0 /\ m2_files_changed' = 0 /\ m2_fields_patched' = 0
    /\ m2_ret' = -1
    /\ UNCHANGED <<m2_dir, patchVars, vkVars, fkVars, emVars, nodeVars, typeVars, refVars>>

RunNext ==
    \/ RunRerun
    \/ RunStart
    \/ RunTarget
    \/ RunFallback
    \/ RunFinish

SpecRun == RunInit /\ [][RunNext]_vars

-----------------------------------------------------------------------------
(* patch_field_in_node applied to one node *)

\* the mappings and scalars placed in the trees
NodeLeaves == {
    Fld(P_ID), FldRef(P_ID, K), FldRef(P_ID, G),
    Map(<<KV("name", Str(N)), KV("technical_name", Str(P_ID))>>),
    Map(<<KV("technical_name", Str(P_ID))>>),
    Map(<<KV("name", IntV(1))>>),
    Str(P_ID) }

\* the trees explored: two leaves under lists and mappings of several depths
NodePool ==
    UNION { { Map(<<KV("fields", List(<<x, y>>))>>),
              Map(<<KV("meta", Map(<<KV("inner", List(<<List(<<x>>), y>>))>>))>>),
              List(<<Map(<<KV("a", x), KV("b", Map(<<KV("c", y)>>))>>)>>),
              Map(<<KV("name", Str(P_ID)), KV("child", x), KV("kids", List(<<y>>))>>) }
            : x \in NodeLeaves, y \in NodeLeaves }

NodeInit ==
    /\ pn_node \in NodePool
    /\ pn_field \in FieldNames
    /\ pn_ref \in RefNames
    /\ pn_out = [node |-> Null, changed |-> 0]
    /\ pn_done = FALSE
    /\ disk = [f \in Files |-> NoFile] /\ bak = disk /\ orig = disk
    /\ lastOp = NoOp /\ lastRet = 0 /\ lastWrote = FALSE /\ repeated = FALSE
    /\ nops = 0 /\ writes = [f \in Files |-> 0]
    /\ VkIdle /\ FkIdle /\ EmIdle /\ RunIdle /\ TypeIdle /\ RefIdle

\* patch_field_in_node on the node
PatchFieldInNode ==
    /\ ~pn_done
    /\ pn_out' = patch_field_in_node(pn_node, pn_field, pn_ref)
    /\ pn_done' = TRUE
    /\ UNCHANGED <<pn_node, pn_field, pn_ref, patchVars, vkVars, fkVars, emVars,
                   runVars, typeVars, refVars>>

NodeNext == PatchFieldInNode

SpecNode == NodeInit /\ [][NodeNext]_vars

-----------------------------------------------------------------------------
(* normalize_pg_type applied to one column *)

\* the columns explored: a type token with every combination of length,
\* precision and scale
TypePool ==
    { Map(<<KV("name", Str(N))>> \o ty \o ln \o pr \o sc) :
        ty \in Opt("type", {Str(<<"v", "a", "r", "c", "h", "a", "r">>), Str(<<" ", "V", "A", "R", "C", "H", "A", "R", " ">>), Str(<<"c", "h", "a", "r", "a", "c", "t", "e", "r", " ", "v", "a", "r", "y", "i", "n", "g">>),
                            Str(<<"n", "u", "m", "e", "r", "i", "c">>), Str(<<"D", "e", "c", "i", "m", "a", "l">>), Str(<<"s", "e", "r", "i", "a", "l">>),
                            Str(<<"S", "E", "R", "I", "A", "L", " ">>), Str(<<"i", "n", "t">>), Str(<<"e", "n", "u", "m", ":", " ", "e">>), Str(<<"m", "o", "n", "e", "y">>),
                            Null, IntV(5)}),
        ln \in Opt("length", {Null, IntV(0), IntV(10), IntV(-1), Str(<<"1", "0">>), BoolV(TRUE)}),
        pr \in Opt("precision", {Null, IntV(12), Str(<<"1", "2">>)}),
        sc \in Opt("scale", {Null, IntV(2), IntV(0)}) }

\* the lengths given by --default-varchar-length
TypeLens == {DefaultVarcharLen, 1}

TypeInit ==
    /\ ty_col \in TypePool
    /\ ty_len \in TypeLens
    /\ ty_out = [ok |-> FALSE, sql |-> <<>>]
    /\ ty_done = FALSE
    /\ disk = [f \in Files |-> NoFile] /\ bak = disk /\ orig = disk
    /\ lastOp = NoOp /\ lastRet = 0 /\ lastWrote = FALSE /\ repeated = FALSE
    /\ nops = 0 /\ writes = [f \in Files |-> 0]
    /\ VkIdle /\ FkIdle /\ EmIdle /\ RunIdle /\ NodeIdle /\ RefIdle

\* normalize_pg_type on the column: the type returned, or an exception
NormalizePgType ==
    /\ ~ty_done
    /\ ty_out' = IF type_raises(ty_col) THEN [ok |-> FALSE, sql |-> <<>>]
                 ELSE [ok |-> TRUE, sql |-> normalize_pg_type(ty_col, ty_len)]
    /\ ty_done' = TRUE
    /\ UNCHANGED <<ty_col, ty_len, patchVars, vkVars, fkVars, emVars, runVars,
                   nodeVars, refVars>>

TypeNext == NormalizePgType

SpecType == TypeInit /\ [][TypeNext]_vars

-----------------------------------------------------------------------------
(* parse_ref_target applied to one reference string *)

\* a letter, the separator and a blank
RefChars == {"k", ".", " "}

\* the reference strings explored
RefPool == UNION {[1..n -> RefChars] : n \in 0..MaxRefLen}

RefInit ==
    /\ pr_in \in RefPool
    /\ pr_out = <<>>
    /\ pr_done = FALSE
    /\ disk = [f \in Files |-> NoFile] /\ bak = disk /\ orig = disk
    /\ lastOp = NoOp /\ lastRet = 0 /\ lastWrote = FALSE /\ repeated = FALSE
    /\ nops = 0 /\ writes = [f \in Files |-> 0]
    /\ VkIdle /\ FkIdle /\ EmIdle /\ RunIdle /\ NodeIdle /\ TypeIdle

\* parse_ref_target on the string
ParseRefTarget ==
    /\ ~pr_done
    /\ pr_out' = parse_ref_target(pr_in)
    /\ pr_done' = TRUE
    /\ UNCHANGED <<pr_in, patchVars, vkVars, fkVars, emVars, runVars, nodeVars, typeVars>>

RefNext == ParseRefTarget

SpecRef == RefInit /\ [][RefNext]_vars

-----------------------------------------------------------------------------
(* Properties of the patch scripts *)

IsPatchStep == nops' = nops + 1

\* C1: applying set_field_ref_table or patch_file a second time with the same
\* file, field and target, after an application that did not raise, reports zero
\* changes and leaves the corpus as the first application left it.
PatchIdempotent ==
    [][(IsPatchStep /\ lastOp' = lastOp /\ lastOp.kind \in {"v1", "v2"} /\ lastRet >= 0)
          => (lastRet' = 0 /\ disk' = disk /\ bak' = bak)]_vars

\* a first application changed the file and the same patch was applied again
PatchIdempotentWitness ==
    /\ repeated
    /\ lastOp.kind \in {"v1", "v2"}
    /\ lastRet = 0
    /\ writes[lastOp.file] = 1
    /\ disk[lastOp.file] # orig[lastOp.file]

\* a document without the reference attribute of the nodes named field_name
RECURSIVE without_ref(_, _)
without_ref(node, field_name) ==
    LET own == IF isdict(node) /\ Get(node, "name") = Str(field_name)
               THEN SelectSeq(node.items, LAMBDA it : it.k # "ref_table")
               ELSE node.items
    IN  [node EXCEPT !.items = [i \in 1..Len(own) |->
                                   KV(own[i].k, without_ref(own[i].v, field_name))]]

\* the documents of a file, an empty document read as an empty mapping
frame_docs(f, field_name) ==
    [i \in 1..Len(f.docs) |->
        without_ref(IF f.docs[i] = Null THEN EmptyMap ELSE f.docs[i], field_name)]

same_but_ref(f, g, field_name) ==
    /\ f.exists = g.exists
    /\ f.ok = g.ok
    /\ frame_docs(f, field_name) = frame_docs(g, field_name)

\* C2: a patch of (field_name, target) changes nothing but the reference
\* attribute of the nodes named field_name: every other key, value and list
\* element of the persisted documents, and their order, is as it was.
PatcherFrame ==
    [][(IsPatchStep /\ lastOp'.kind \in {"v1", "v2"})
          => \A f \in Files : same_but_ref(disk[f], disk'[f], lastOp'.field)]_vars

\* C3: a file that was written has a backup, and a backup that exists holds the
\* content the file had before its first write, however many writes followed.
BackupFirstWriteWins ==
    \A f \in Files :
        /\ (writes[f] > 0 \/ disk[f] # orig[f]) => bak[f].exists
        /\ bak[f].exists => bak[f] = orig[f]

\* a file written twice, its backup still the original and not the first result
BackupFirstWriteWinsWitness ==
    \E f \in Files : writes[f] >= 2 /\ bak[f] = orig[f] /\ disk[f] # orig[f]

\* C4: a patch that returns 0 (or raises) leaves the file and its backup
\* untouched; a patch that returns a positive count has written the file, and
\* backed it up.
PersistOnlyIfChanged ==
    [][IsPatchStep =>
          /\ lastRet' <= 0 => (~lastWrote' /\ disk' = disk /\ bak' = bak)
          /\ lastRet' > 0 => /\ lastWrote'
                             /\ disk'[lastOp'.file] # disk[lastOp'.file]
                             /\ bak'[lastOp'.file].exists]_vars

\* a patch that wrote the file, followed by one on the same file that did not
PersistOnlyIfChangedWitness ==
    /\ nops = 2
    /\ lastOp.kind \in {"v1", "v2"}
    /\ lastRet = 0
    /\ ~lastWrote
    /\ writes[lastOp.file] = 1

-----------------------------------------------------------------------------
(* Properties of the checker *)

scanned == vk_pc = "done" /\ vk_dir /\ yaml_files # <<>>

\* C5: main returns 0 only without missing target and without parse error,
\* 1 when a target is missing, 2 when the directory or the files are missing.
CheckerExitStatus ==
    vk_pc = "done" =>
        /\ vk_ret \in {0, 1, 2}
        /\ vk_ret = 0 => (vk_missing = <<>> /\ vk_parse_errors = <<>>)
        /\ (scanned /\ vk_missing # <<>>) => vk_ret = 1
        /\ ~scanned => vk_ret = 2

parsable(file) == disk[file].exists /\ ~safe_load_raises(disk[file])
table_of(file) == infer_table_name(load_yaml(disk[file]), stem(file))
candidates_of(file) == find_fk_targets(iter_fields(load_yaml(disk[file])))
in_seq(x, q) == \E i \in 1..Len(q) : q[i] = x

\* C6: after a scan, every file that does not parse is in parse_errors, and
\* every other file, wherever it is in the scan order, has its table in the
\* registry and every candidate of its fields in all_fk.
ParseFailureIsolated ==
    scanned =>
        \A f \in CheckFileSet :
            /\ (disk[f].exists /\ ~parsable(f)) => in_seq(f, vk_parse_errors)
            /\ parsable(f) =>
                 /\ table_of(f) \in vk_tables
                 /\ ~in_seq(f, vk_parse_errors)
                 /\ \A i \in 1..Len(candidates_of(f)) :
                        in_seq(<<table_of(f), candidates_of(f)[i][1],
                                 candidates_of(f)[i][2]>>, vk_all_fk)

\* the first file of the scan does not parse, a later one has candidates
ParseFailureIsolatedWitness ==
    /\ scanned
    /\ ~parsable(yaml_files[1])
    /\ \E i \in 2..Len(yaml_files) :
          parsable(yaml_files[i]) /\ candidates_of(yaml_files[i]) # <<>>
    /\ vk_all_fk # <<>>

\* the Table Registry of the whole corpus
Registry == {table_of(f) : f \in {g \in CheckFileSet : parsable(g)}}

\* the candidates of a file whose target is not in the registry
missing_of(file) ==
    LET miss == SelectSeq(candidates_of(file), LAMBDA c : c[2] \notin Registry)
    IN  [i \in 1..Len(miss) |-> <<table_of(file), file, miss[i][1], miss[i][2]>>]

ExpectedMissing ==
    Concat([i \in 1..Len(CheckFiles) |->
        IF parsable(CheckFiles[i]) THEN missing_of(CheckFiles[i]) ELSE <<>>])

\* C7: after a scan the missing list holds exactly the candidates whose target
\* is not a table of the whole corpus, each once, whatever the scan order.
MissingIffNotInRegistry ==
    scanned => vk_missing = ExpectedMissing

\* a candidate resolved by a table that is scanned later, beside a missing one
MissingIffNotInRegistryWitness ==
    /\ scanned
    /\ vk_missing # <<>>
    /\ \E i, j \in 1..Len(yaml_files) :
          /\ i < j
          /\ parsable(yaml_files[i]) /\ parsable(yaml_files[j])
          /\ table_of(yaml_files[j]) \notin
                {table_of(yaml_files[h]) : h \in {g \in 1..(j - 1) : parsable(yaml_files[g])}}
          /\ \E c \in 1..Len(candidates_of(yaml_files[i])) :
                candidates_of(yaml_files[i])[c][2] = table_of(yaml_files[j])

\* C10: after a patch script has set the ref_table of a reported field to a
\* table of the registry, the next run of the checker reports no missing target
\* for that field.
PatchedFieldNotMissing ==
    (scanned /\ lastOp.kind \in {"v1", "v2"} /\ lastRet > 0 /\ lastOp.ref \in vk_tables)
        => ~reported(lastOp.file, lastOp.field)

-----------------------------------------------------------------------------
(* Properties of find_fk_targets *)

fk_name == strip(pystr(get_or_empty(fk_field, "name")))
fk_heuristic == endswith(fk_name, ID_SUFFIX) /\ Len(fk_name) > 3
\* the table the name implies: the name without _id, and without the whitespace
\* this leaves at its end
fk_implied == strip(SubSeq(fk_name, 1, Len(fk_name) - 3))

fk_raw_name == IF isstr(Get(fk_field, "name")) THEN Get(fk_field, "name").s ELSE <<>>

\* a reference value that leaves a target once its column is dropped
fk_names_target(v) == nonblank(v) /\ strip(parse_ref_target(v.s)) # <<>>

\* the number of references the field declares in so many words
fk_declared ==
    (IF nonblank(Get(fk_field, "ref_table")) THEN 1 ELSE 0)
    + Cardinality({k \in {"references", "foreign_key"} : fk_names_target(Get(fk_field, k))})
    + (IF lower(pystr(get_or_empty(fk_field, "type"))) \in FK_TYPES
       THEN Cardinality({k \in {"ref", "reference", "target", "comodel", "model"} :
                            fk_names_target(Get(fk_field, k))})
       ELSE 0)
    + (IF nonblank(Get(fk_field, "relation")) THEN 1 ELSE 0)
    + (IF isdict(Get(fk_field, "many2one"))
       THEN Cardinality({k \in {"comodel", "model", "table"} :
                            fk_names_target(Get(Get(fk_field, "many2one"), k))})
       ELSE 0)

\* C19 as stated: a field whose name ends in _id and is longer than 3 characters
\* always yields the candidate (name, name without _id), whatever references it
\* declares; a field named _id or whose name does not end in _id yields no
\* candidate from its name.
NamingHeuristicRaw ==
    fk_done =>
        IF endswith(fk_raw_name, ID_SUFFIX) /\ Len(fk_raw_name) > 3
        THEN in_seq(<<fk_raw_name, SubSeq(fk_raw_name, 1, Len(fk_raw_name) - 3)>>, fk_out)
        ELSE Len(fk_out) = fk_declared

\* C19 amended: with the name taken without its surrounding whitespace, a name
\* that ends in _id and is longer than 3 characters always yields, first, the
\* candidate (name, name without _id and without trailing whitespace), next to
\* one candidate for each declared reference; any other name yields the
\* candidates of the declared references only.
NamingHeuristic ==
    fk_done =>
        IF fk_heuristic
        THEN /\ Len(fk_out) = fk_declared + 1
             /\ fk_out[1] = <<fk_name, fk_implied>>
        ELSE Len(fk_out) = fk_declared

\* a name with a trailing blank on a field that declares a ref_table, a
\* references and a relation: the candidate of the name comes with the three
NamingHeuristicWitness ==
    /\ fk_done
    /\ fk_raw_name = P_ID_TR
    /\ fk_declared = 3
    /\ Len(fk_out) = 4
    /\ fk_out[1] = <<P_ID, P>>

-----------------------------------------------------------------------------
(* Properties of the emitter *)

\* the places where pat occurs in text
occurrences(text, pat) ==
    {i \in 1..(Len(text) - Len(pat) + 1) : SubSeq(text, i, i + Len(pat) - 1) = pat}

EmTableNames == {<<"p", "u", "b", "l", "i", "c", ".", "a">>, <<"p", "u", "b", "l", "i", "c", ".", "b">>}

\* C8: in the SQL written, every FOREIGN KEY clause stands after the CREATE
\* TABLE of the table it references, whatever the order of the source files.
PhaseOrdering ==
    (em_pc = "done" /\ em_written.exists) =>
        \A t \in EmTableNames :
            \A i \in occurrences(em_written.text, <<"R", "E", "F", "E", "R", "E", "N", "C", "E", "S", " ">> \o t) :
                \A j \in occurrences(em_written.text, <<"C", "R", "E", "A", "T", "E", " ", "T", "A", "B", "L", "E", " ">> \o t \o <<" ", "(">>) :
                    j < i

-----------------------------------------------------------------------------
(* Properties of apply_fk_patch_v2.main *)

\* node holds a field-like mapping named field_name, at any depth
RECURSIVE has_field(_, _)
has_field(node, field_name) ==
    IF isdict(node)
    THEN \/ is_field_dict(node) /\ Get(node, "name") = Str(field_name)
         \/ \E i \in 1..Len(node.items) : has_field(node.items[i].v, field_name)
    ELSE IF islist(node)
    THEN \E i \in 1..Len(node.items) : has_field(node.items[i].v, field_name)
    ELSE FALSE

\* the field of target t cannot be found in its declared file
cannot_find(t) ==
    \/ ~disk[t.file].exists
    \/ \A i \in 1..Len(load_yaml_all(disk[t.file])) :
          ~has_field(load_yaml_all(disk[t.file])[i], t.field)

\* a step of the loop over TARGETS that does not end main with an exception
IsTargetStep == m2_pc = "targets" /\ (disk[TARGETS[m2_i].file].exists => disk[TARGETS[m2_i].file].ok)

\* C11: a target enters the fallback scan exactly when its field cannot be
\* found in its declared file; a target whose field is there, already with the
\* right reference, does not.
FallbackIffNotFound ==
    [][IsTargetStep =>
          ((m2_not_found' = Append(m2_not_found, TARGETS[m2_i])) <=> cannot_find(TARGETS[m2_i]))
      ]_vars

\* every field-like mapping of node named field_name refers to ref_table
RECURSIVE all_refer(_, _, _)
all_refer(node, field_name, ref_table) ==
    IF isdict(node)
    THEN /\ (is_field_dict(node) /\ Get(node, "name") = Str(field_name))
               => Get(node, "ref_table") = Str(ref_table)
         /\ \A i \in 1..Len(node.items) : all_refer(node.items[i].v, field_name, ref_table)
    ELSE IF islist(node)
    THEN \A i \in 1..Len(node.items) : all_refer(node.items[i].v, field_name, ref_table)
    ELSE TRUE

\* the step that ends the scan of the corpus for one entry of not_found
IsLastOfScan == m2_pc = "fallback" /\ (m2_i' # m2_i \/ m2_pc' # "fallback")

\* C12: the fallback scan for (field, ref) goes through the whole corpus: when
\* it ends, every field-like node named field in every file that parses refers
\* to ref, and a file that does not parse never ends the scan or the run.
FallbackPatchesAll ==
    [][/\ IsLastOfScan =>
            \A f \in RunFiles :
                (disk'[f].exists /\ disk'[f].ok) =>
                    \A i \in 1..Len(load_yaml_all(disk'[f])) :
                        all_refer(load_yaml_all(disk'[f])[i],
                                  m2_not_found[m2_i].field, m2_not_found[m2_i].ref)
       /\ m2_pc = "fallback" => (m2_pc' \in {"fallback", "summary"} /\ m2_ret' = -1)
      ]_vars

\* a run that ended after a fallback scan in which file a was patched, file c,
\* which does not parse, was passed over, and file d after it was patched too
FallbackPatchesAllWitness ==
    /\ m2_pc = "done" /\ m2_ret = 0
    /\ m2_not_found = <<TARGETS[2]>>
    /\ disk["c"].exists /\ ~disk["c"].ok
    /\ orig["a"] = orig["d"] /\ orig["d"].ok
    /\ has_field(orig["d"].docs[1], N) /\ ~all_refer(orig["d"].docs[1], N, G)
    /\ all_refer(disk["a"].docs[1], N, G)
    /\ all_refer(disk["d"].docs[1], N, G)

-----------------------------------------------------------------------------
(* Properties of patch_field_in_node *)

\* the number of field-like mappings of node named field_name that do not
\* refer to ref_table
RECURSIVE stale(_, _, _)
stale(node, field_name, ref_table) ==
    IF isdict(node)
    THEN (IF is_field_dict(node) /\ Get(node, "name") = Str(field_name)
             /\ Get(node, "ref_table") # Str(ref_table) THEN 1 ELSE 0)
         + SumSeq([i \in 1..Len(node.items) |->
                      stale(node.items[i].v, field_name, ref_table)])
    ELSE IF islist(node)
    THEN SumSeq([i \in 1..Len(node.items) |->
                    stale(node.items[i].v, field_name, ref_table)])
    ELSE 0

\* every mapping of node whose name or technical_name is field_name refers to
\* ref_table
RECURSIVE all_refer_either(_, _, _)
all_refer_either(node, field_name, ref_table) ==
    IF isdict(node)
    THEN /\ (Get(node, "name") = Str(field_name)
               \/ Get(node, "technical_name") = Str(field_name))
               => Get(node, "ref_table") = Str(ref_table)
         /\ \A i \in 1..Len(node.items) :
               all_refer_either(node.items[i].v, field_name, ref_table)
    ELSE IF islist(node)
    THEN \A i \in 1..Len(node.items) :
            all_refer_either(node.items[i].v, field_name, ref_table)
    ELSE TRUE

\* C13 as stated: at any depth, every field-like node whose name or
\* technical_name is field_name gets the reference, and the count returned is
\* the number of nodes whose reference changed.
PatchByNameOrTechnicalName ==
    pn_done =>
        /\ all_refer_either(pn_out.node, pn_field, pn_ref)
        /\ pn_out.changed = stale(pn_node, pn_field, pn_ref)

\* C13 amended: at any depth, every mapping with a string name equal to
\* field_name gets the reference, whatever its technical_name, and the count
\* returned is the number of nodes whose reference changed.
PatchByName ==
    pn_done =>
        /\ all_refer(pn_out.node, pn_field, pn_ref)
        /\ pn_out.changed = stale(pn_node, pn_field, pn_ref)

\* two nodes patched below a list at the root, inside mappings
PatchByNameWitness ==
    /\ pn_done /\ islist(pn_node)
    /\ pn_out.changed = 2
    /\ stale(pn_out.node, pn_field, pn_ref) = 0

-----------------------------------------------------------------------------
(* Properties of the emitter: runs compared *)

\* C14: two runs of the emitter over the same corpus and command line produce
\* the same statements in the same order, whatever order the directory listing
\* returns the files in.
EmitterDeterministic ==
    (em_pc = "done" /\ em_second) =>
        /\ em_output = em_prev.output
        /\ em_written = em_prev.written
        /\ em_status = em_prev.status

\* a second run that wrote the statements of two tables
EmitterDeterministicWitness ==
    /\ em_pc = "done" /\ em_second /\ em_status = 0
    /\ Len(em_tables) >= 2 /\ em_log = <<>>
    /\ em_written.exists /\ em_written = em_prev.written

\* the number of primary key columns of a table: the explicit list, else the
\* columns marked
pk_count(obj) == IF gen_table_raises(obj) THEN 0 ELSE Len(pk_cols(obj))

\* the CREATE TABLE of obj stands in the file written
created(obj) ==
    /\ em_written.exists
    /\ isstr(Get(obj, "name"))
    /\ occurrences(em_written.text,
           <<"C", "R", "E", "A", "T", "E", " ", "T", "A", "B", "L", "E", " ">> \o qident(em_cfg.schema) \o <<".">> \o qident(Get(obj, "name").s)
              \o <<" ", "(">>) # {}

\* C15: a table with no primary key column or with two of them is rejected:
\* in strict mode no CREATE TABLE is written for it.
ExactlyOnePk ==
    (em_pc = "done" /\ em_cfg.strict) =>
        \A i \in 1..Len(em_tables) :
            pk_count(em_tables[i]) # 1 => ~created(em_tables[i])

-----------------------------------------------------------------------------
(* Properties of normalize_pg_type *)

\* the type token of the column as normalize_pg_type reads it
ty_token == lower(strip(py_or(Get(ty_col, "type"), Str(<<>>)).s))

\* C16: a column of type serial is always rejected: normalize_pg_type raises
\* and returns no SQL type.
SerialRejected ==
    (ty_done /\ isstr(Get(ty_col, "type")) /\ ty_token = <<"s", "e", "r", "i", "a", "l">>) => ~ty_out.ok

ty_varchar == ty_done /\ ty_out.ok /\ ty_token \in {<<"v", "a", "r", "c", "h", "a", "r">>, <<"c", "h", "a", "r", "a", "c", "t", "e", "r", " ", "v", "a", "r", "y", "i", "n", "g">>}
ty_numeric == ty_done /\ ty_out.ok /\ ty_token \in {<<"n", "u", "m", "e", "r", "i", "c">>, <<"d", "e", "c", "i", "m", "a", "l">>}
ty_default == <<"v", "a", "r", "c", "h", "a", "r", "(">> \o decimal(ty_len) \o <<")">>

\* the key is there with a value other than null
ty_present(key) == Has(ty_col, key) /\ Get(ty_col, key) # Null

\* C17: varchar without an explicit positive length becomes
\* varchar(default); numeric or decimal becomes numeric(p,s) when precision and
\* scale are both present, bare numeric when one is absent.
TypeMappingPresent ==
    /\ (ty_varchar /\ ~(Get(ty_col, "length").tag = "int" /\ Get(ty_col, "length").n > 0))
          => ty_out.sql = ty_default
    /\ ty_numeric =>
          ty_out.sql = IF ty_present("precision") /\ ty_present("scale")
                       THEN <<"n", "u", "m", "e", "r", "i", "c", "(">> \o pystr(Get(ty_col, "precision")) \o <<",">>
                               \o pystr(Get(ty_col, "scale")) \o <<")">>
                       ELSE <<"n", "u", "m", "e", "r", "i", "c">>

(* Properties of the emitter's handling of a failing entity *)

em_table_sql(obj) ==
    gen_table_sql(obj, em_cfg.schema, em_cfg.owner, em_cfg.with_drop,
                  em_cfg.default_varchar_len, em_cfg.tablespace)
em_view_sql(v) ==
    gen_view_sql(v.obj, em_cfg.schema, em_cfg.owner, em_cfg.with_drop, v.materialized)

\* the entity the run is at, when generating its SQL fails
em_failing ==
    \/ em_pc = "tables" /\ ~em_table_sql(em_tables[em_i]).ok
    \/ em_pc = "views" /\ ~em_view_sql(em_views[em_i]).ok

\* the statements of the entities whose generation succeeds, in the order of the
\* entities
em_statements ==
    Concat([i \in 1..Len(em_tables) |->
               IF em_table_sql(em_tables[i]).ok
               THEN <<em_table_sql(em_tables[i]).sql, <<>>>> ELSE <<>>])
    \o Concat([i \in 1..Len(em_views) |->
               IF em_view_sql(em_views[i]).ok
               THEN <<em_view_sql(em_views[i]).sql, <<>>>> ELSE <<>>])

em_some_fails ==
    \/ \E i \in 1..Len(em_tables) : ~em_table_sql(em_tables[i]).ok
    \/ \E i \in 1..Len(em_views) : ~em_view_sql(em_views[i]).ok

ErrorPolicyStep ==
    em_failing =>
        /\ Len(em_log') = Len(em_log) + 1
        /\ em_output' = em_output
        /\ em_written' = em_written
        /\ IF em_cfg.strict
           THEN em_pc' = "done" /\ em_status' = 1 /\ ~em_written.exists
           ELSE em_pc' # "done" /\ em_status' = em_status

ErrorPolicyDone ==
    (em_pc = "done" /\ em_status = 0 /\ em_some_fails) =>
        /\ ~em_cfg.strict
        /\ em_log # <<>>
        /\ em_output = header(em_cfg, em_enums) \o em_statements
        /\ em_written = [exists |-> TRUE,
                         text |-> strip(join_text(em_output, <<"\n">>)) \o <<"\n">>]

\* C18: when generating the SQL of an entity fails, a strict run stops at that
\* entity with status 1 and writes nothing; a permissive run logs the error,
\* leaves out the statements of that entity only and still emits the statements
\* of every other entity in their order.
ErrorPolicy == []ErrorPolicyDone /\ [][ErrorPolicyStep]_vars

\* a permissive run that wrote the first and the third table and left out the
\* second, whose generation failed
ErrorPolicyWitness ==
    /\ em_pc = "done" /\ em_status = 0 /\ ~em_cfg.strict
    /\ Len(em_tables) = 3 /\ Len(em_log) = 1
    /\ em_table_sql(em_tables[1]).ok
    /\ ~em_table_sql(em_tables[2]).ok
    /\ em_table_sql(em_tables[3]).ok
    /\ em_written.exists
    /\ em_output = header(em_cfg, em_enums)
                   \o <<em_table_sql(em_tables[1]).sql, <<>>,
                        em_table_sql(em_tables[3]).sql, <<>>>>

-----------------------------------------------------------------------------
(* Properties of parse_ref_target *)

\* the places of the separator in a string
dots(cs) == {i \in 1..Len(cs) : cs[i] = "."}

\* the whole string when it has one segment, else all of it before its last
\* separator
but_last_segment(cs) ==
    IF dots(cs) = {} THEN cs
    ELSE SubSeq(cs, 1, (CHOOSE i \in dots(cs) : \A j \in dots(cs) : j <= i) - 1)

-----------------------------------------------------------------------------
(* Properties of a second run of apply_fk_patch_v2.main *)

\* C21: a second run of main on the corpus the first run left changes no file,
\* creates no backup and reports 0 files changed and 0 fields patched.
RunConverges ==
    (m2_second /\ m2_pc = "done") =>
        /\ disk = m2_prev.disk
        /\ bak = m2_prev.bak
        /\ m2_ret = 0 => (m2_files_changed = 0 /\ m2_fields_patched = 0)

====
